---- MODULE Spec2Model ----
(***************************************************************************)
(* A model of OmicScope's analysis object (General/Omicscope.py) and of    *)
(* the multi-study loader (MultipleData/Nebula.py).                        *)
(*                                                                         *)
(* Representation.                                                         *)
(*  - A Python str is a tuple of code points, so that sorting, joining,    *)
(*    prefix tests and case folding are computed and not assumed.          *)
(*  - A float is a record [k, v]: k = "num" with v the value in            *)
(*    hundredths (fixed point), k = "nan", or k = "inf" with v the sign.   *)
(*    Comparisons follow IEEE-754: every comparison with NaN is false.     *)
(*  - A text line is the tuple of its tab-separated fields, without the    *)
(*    line terminator; a file is the tuple of its lines.                   *)
(*  - An attribute a Python object does not have yet is absent from the    *)
(*    set attrs (resp. n_attrs); its variable then holds <<>>.             *)
(***************************************************************************)
EXTENDS Integers, Sequences, FiniteSets, TLC

VARIABLES
    \* ---- the Omicscope object (self) --------------------------------
    pdata,              \* self.pdata: sample metadata, one record per row
    pdata_cols,         \* self.pdata.columns, in column order
    rdata,              \* self.rdata: feature metadata, one record per row
    rdata_stat,         \* whether self.rdata has a recognised statistics column
    assay,              \* self.assay[entity][sample]
    ControlGroup,       \* self.ControlGroup: [isNone, label]
    ExperimentalDesign, \* the ExperimentalDesign argument
    pvalue,             \* self.pvalue
    PValue_cutoff,      \* self.PValue_cutoff
    FoldChange_cutoff,  \* self.FoldChange_cutoff
    experimental,       \* self.experimental
    Conditions,         \* self.Conditions
    ctrl,               \* self.ctrl
    expression,         \* self.expression once it holds the matrix
    quant_data,         \* self.quant_data
    deps,               \* self.deps once it holds the table
    attrs,              \* the attributes assigned so far
    pc,                 \* position inside Omicscope.__init__ / after it
    error,              \* the exception construction or a later call raised, or "none"
    calls,              \* the procedures __init__ has called so far, in order
    \* ---- the constructor's inputs -----------------------------------
    Table,              \* the tables the Input parser read: [pdata, rdata, assay]
    arg_ControlGroup,   \* the ControlGroup argument
    \* ---- the environment --------------------------------------------
    stat_out,           \* what the statistics module computes per entity
    hash_order,         \* iteration order of set(pdata_columns) in this process
    neglog_p,           \* whether the statistics module also yields '-log10(p)'
    dir,                \* the output folder: file name -> file content
    figures,            \* the plotting functions that have drawn their figure
    saved,              \* the condition lists savefile has been called with
    \* ---- the nebula object ------------------------------------------
    n_groups,           \* nebula.groups
    n_labels,           \* nebula.labels
    n_original,         \* nebula.original
    n_enrichment,       \* nebula.enrichment
    n_group_data,       \* nebula.group_data
    n_pvalue,           \* nebula.pvalue
    n_files,            \* glob.glob's listing used by read_omics
    n_attrs,            \* attributes the nebula object has
    npc,                \* position inside nebula.__init__
    n_error             \* the exception that ended nebula.__init__, or "none"

ovars == <<pdata, pdata_cols, rdata, rdata_stat, assay, ControlGroup,
           ExperimentalDesign, pvalue, PValue_cutoff, FoldChange_cutoff,
           experimental, Conditions, ctrl, expression, quant_data, deps,
           attrs, pc, error, calls>>
evars == <<Table, arg_ControlGroup, stat_out, hash_order, neglog_p>>
nvars == <<n_groups, n_labels, n_original, n_enrichment, n_group_data, n_pvalue, n_files,
           n_attrs, npc, n_error>>
vars == <<ovars, evars, dir, figures, saved, nvars>>

-----------------------------------------------------------------------------
(* Bounds of the model.                                                    *)

MaxSamples == 3     \* raw samples (rows of pdata) at most
MaxEntities == 2    \* measured entities (rows of rdata) at most
MaxRows == 2        \* table rows of a file placed in the folder from outside
MaxTerms == 2       \* terms of an enrichment table of such a file

-----------------------------------------------------------------------------
(* Python str values used by the code, as code points.                     *)

S_Sample == <<83, 97, 109, 112, 108, 101>>                          \* "Sample"
S_Samples == <<83, 97, 109, 112, 108, 101, 115>>                    \* "Samples"
S_Condition == <<67, 111, 110, 100, 105, 116, 105, 111, 110>>       \* "Condition"
S_Biological == <<66, 105, 111, 108, 111, 103, 105, 99, 97, 108>>   \* "Biological"
S_technical == <<116, 101, 99, 104, 110, 105, 99, 97, 108>>         \* "technical"
S_BioRep_ == <<66, 105, 111, 82, 101, 112, 95>>                     \* "BioRep_"
S_OmicScope == <<79, 109, 105, 99, 83, 99, 111, 112, 101>>          \* "OmicScope"
S_ControlGroup == <<67, 111, 110, 116, 114, 111, 108, 71, 114, 111, 117, 112, 58>>      \* "ControlGroup:"
S_Experimental_colon == <<69, 120, 112, 101, 114, 105, 109, 101, 110, 116, 97, 108, 58>> \* "Experimental:"
S_Statistics_colon == <<83, 116, 97, 116, 105, 115, 116, 105, 99, 115, 58>>              \* "Statistics:"
S_Expression_colon == <<69, 120, 112, 114, 101, 115, 115, 105, 111, 110, 58>>            \* "Expression:"
S_Marker == <<45, 45, 45, 45, 45, 45, 45>>                          \* "-------"
S_Experimental == <<69, 120, 112, 101, 114, 105, 109, 101, 110, 116, 97, 108>>           \* "Experimental"
S_Statistics == <<83, 116, 97, 116, 105, 115, 116, 105, 99, 115>>   \* "Statistics"
S_gene_name == <<103, 101, 110, 101, 95, 110, 97, 109, 101>>        \* "gene_name"
S_Accession == <<65, 99, 99, 101, 115, 115, 105, 111, 110>>         \* "Accession"
S_pvalue == <<112, 118, 97, 108, 117, 101>>                         \* "pvalue"
S_pAdjusted == <<112, 65, 100, 106, 117, 115, 116, 101, 100>>       \* "pAdjusted"
S_pTukey == <<112, 84, 117, 107, 101, 121>>                         \* "pTukey"
S_log2fc == <<108, 111, 103, 50, 40, 102, 99, 41>>                  \* "log2(fc)"
S_TotalMean == <<84, 111, 116, 97, 108, 77, 101, 97, 110>>          \* "TotalMean"
S_omics == <<46, 111, 109, 105, 99, 115>>                           \* ".omics"
S_dash == <<45>>                                                    \* "-"
S_dot == <<46>>                                                     \* "."
S_comma == <<44>>                                                   \* ","
S_inf == <<105, 110, 102>>                                          \* "inf"
S_Unnamed == <<85, 110, 110, 97, 109, 101, 100, 58, 32>>           \* "Unnamed: "
S_Genes == <<71, 101, 110, 101, 115>>                               \* "Genes"
S_quote == <<39>>                                                   \* "'"
S_lbracket == <<91>>                                                \* "["
S_rbracket == <<93>>                                                \* "]"
S_comma_space == <<44, 32>>                                         \* ", "
S_neglog10 == <<45, 108, 111, 103, 49, 48, 40>>                     \* "-log10("
S_rparen == <<41>>                                                  \* ")"
\* The provenance line of the file; its text is abbreviated to its first
\* two words (no code path reads beyond how the line begins).
S_Provenance == <<84, 104, 105, 115, 32, 102, 105, 108, 101>>       \* "This file ..."

\* Sample data: condition labels, sample and entity identifiers.
S_KO == <<75, 79>>      \* "KO"
S_WT == <<87, 84>>      \* "WT"
S_Ab == <<65, 98>>      \* "Ab"
S_XX == <<88, 88>>      \* "XX", a label no sample carries
S_1 == <<49>>           \* "1"
S_2 == <<50>>           \* "2"
S_pOther == <<112>>     \* "p", not a p-value kind

-----------------------------------------------------------------------------
(* Floats.                                                                 *)

Num(x) == [k |-> "num", v |-> x]
NaN == [k |-> "nan", v |-> 0]
PosInf == [k |-> "inf", v |-> 1]
NegInf == [k |-> "inf", v |-> -1]

IsNaN(a) == a.k = "nan"

\* a < b on floats
FLt(a, b) ==
    IF IsNaN(a) \/ IsNaN(b) THEN FALSE
    ELSE IF a.k = "inf" THEN (a.v < 0 /\ b # a)
    ELSE IF b.k = "inf" THEN b.v > 0
    ELSE a.v < b.v

\* a <= b on floats
FLe(a, b) == ~IsNaN(a) /\ ~IsNaN(b) /\ (a = b \/ FLt(a, b))

\* a >= b on floats
FGe(a, b) == FLe(b, a)

\* -a on floats
FNeg(a) == IF IsNaN(a) THEN a ELSE [k |-> a.k, v |-> 0 - a.v]

-----------------------------------------------------------------------------
(* Python list and str primitives.                                         *)

Range(s) == {s[i] : i \in 1..Len(s)}

\* x in s
Contains(s, x) == \E i \in 1..Len(s) : s[i] = x

\* str comparison a < b: lexicographic on code points
StrLess(a, b) ==
    \E i \in 1..(Len(b)) :
        /\ \A j \in 1..(i - 1) : j <= Len(a) /\ a[j] = b[j]
        /\ \/ i = Len(a) + 1
           \/ i <= Len(a) /\ a[i] < b[i]

\* a.startswith(p)
StartsWith(a, p) == Len(a) >= Len(p) /\ SubSeq(a, 1, Len(p)) = p

\* Series.drop_duplicates(): the first occurrence of each value, in order
RECURSIVE drop_duplicates(_)
drop_duplicates(s) ==
    IF s = <<>> THEN <<>>
    ELSE LET front == drop_duplicates(SubSeq(s, 1, Len(s) - 1))
             last == s[Len(s)]
         IN  IF Contains(front, last) THEN front ELSE Append(front, last)

\* insert x into the sorted list s, after the elements not greater than x
RECURSIVE InsertSorted(_, _)
InsertSorted(s, x) ==
    IF s = <<>> THEN <<x>>
    ELSE IF StrLess(x, s[1]) THEN <<x>> \o s
    ELSE <<s[1]>> \o InsertSorted(Tail(s), x)

\* sorted(s) for a list of str (stable)
RECURSIVE sorted(_)
sorted(s) ==
    IF s = <<>> THEN <<>>
    ELSE InsertSorted(sorted(SubSeq(s, 1, Len(s) - 1)), s[Len(s)])

\* list.remove(x): s without its first x (the caller checks x in s)
RECURSIVE Remove(_, _)
Remove(s, x) ==
    IF s = <<>> THEN <<>>
    ELSE IF s[1] = x THEN Tail(s)
    ELSE <<s[1]>> \o Remove(Tail(s), x)

\* sep.join(parts)
RECURSIVE Join(_, _)
Join(sep, parts) ==
    IF parts = <<>> THEN <<>>
    ELSE IF Len(parts) = 1 THEN parts[1]
    ELSE parts[1] \o sep \o Join(sep, Tail(parts))

\* the elements of s that satisfy the flags f (boolean-mask indexing)
RECURSIVE Mask(_, _)
Mask(s, f) ==
    IF s = <<>> THEN <<>>
    ELSE (IF f[1] THEN <<s[1]>> ELSE <<>>) \o Mask(Tail(s), Tail(f))

\* the values of column c of a table (a list of rows), in row order
Column(table, c) == [i \in 1..Len(table) |-> table[i][c]]

\* a str cell of a table
Str(s) == [k |-> "str", v |-> s]

-----------------------------------------------------------------------------
(* Omicscope.define_conditions                                             *)

\* define_conditions as it would be without sorted(): the first label seen
\* becomes the control
define_conditions_unsorted ==
    LET Conds == drop_duplicates(Column(pdata, S_Condition))
        c == IF ControlGroup.isNone THEN Conds[1] ELSE ControlGroup.label
    IN  [raised |-> ~Contains(Conds, c),
         ControlGroup |-> c,
         experimental |-> IF Contains(Conds, c) THEN Remove(Conds, c) ELSE <<>>,
         Conditions |-> IF Contains(Conds, c) THEN <<c>> \o Remove(Conds, c) ELSE <<>>]

\* define_conditions as it would be with the labels sorted on both paths
define_conditions_sorted ==
    LET Conds == sorted(drop_duplicates(Column(pdata, S_Condition)))
        c == IF ControlGroup.isNone THEN Conds[1] ELSE ControlGroup.label
    IN  [raised |-> ~Contains(Conds, c),
         ControlGroup |-> c,
         experimental |-> IF Contains(Conds, c) THEN Remove(Conds, c) ELSE <<>>,
         Conditions |-> IF Contains(Conds, c) THEN <<c>> \o Remove(Conds, c) ELSE <<>>]

\* define_conditions as it would be if an absent control were accepted
define_conditions_no_raise ==
    LET Conds == IF ControlGroup.isNone
                 THEN sorted(drop_duplicates(Column(pdata, S_Condition)))
                 ELSE drop_duplicates(Column(pdata, S_Condition))
        c == IF ControlGroup.isNone THEN Conds[1] ELSE ControlGroup.label
    IN  [raised |-> FALSE,
         ControlGroup |-> c,
         experimental |-> Remove(Conds, c),
         Conditions |-> <<c>> \o Remove(Conds, c)]

\* define_conditions as it would be without the remove() of the control
define_conditions_no_remove ==
    LET Conds == IF ControlGroup.isNone
                 THEN sorted(drop_duplicates(Column(pdata, S_Condition)))
                 ELSE drop_duplicates(Column(pdata, S_Condition))
        c == IF ControlGroup.isNone THEN Conds[1] ELSE ControlGroup.label
    IN  [raised |-> ~Contains(Conds, c),
         ControlGroup |-> c,
         experimental |-> IF Contains(Conds, c) THEN Conds ELSE <<>>,
         Conditions |-> IF Contains(Conds, c) THEN <<c>> \o Conds ELSE <<>>]

\* The result of define_conditions on self.pdata and self.ControlGroup:
\* raised tells whether it raised ValueError, the other fields are the
\* attributes it assigns.
define_conditions ==
    IF ControlGroup.isNone
    THEN LET Control == sorted(drop_duplicates(Column(pdata, S_Condition)))
         IN  [raised |-> FALSE,
              ControlGroup |-> Control[1],
              experimental |-> Remove(Control, Control[1]),
              Conditions |-> <<Control[1]>> \o Remove(Control, Control[1])]
    ELSE LET Conds == drop_duplicates(Column(pdata, S_Condition))
         IN  IF Contains(Conds, ControlGroup.label)
             THEN [raised |-> FALSE,
                   ControlGroup |-> ControlGroup.label,
                   experimental |-> Remove(Conds, ControlGroup.label),
                   Conditions |-> <<ControlGroup.label>>
                                    \o Remove(Conds, ControlGroup.label)]
             ELSE [raised |-> TRUE,
                   ControlGroup |-> ControlGroup.label,
                   experimental |-> <<>>,
                   Conditions |-> <<>>]

-----------------------------------------------------------------------------
(* Omicscope.expression                                                    *)

\* list(set(pdata_columns) - set(['Sample', 'Samples'])) for the columns
\* pcols: the set's iteration order is the process's hash order
pdata_columns(pcols) ==
    SelectSeq(hash_order,
              LAMBDA c : Contains(pcols, c) /\ c \notin {S_Sample, S_Samples})

\* the group key of a pdata row: its values in the columns cols
GroupKey(row, cols) == [i \in 1..Len(cols) |-> row[cols[i]]]

\* key a sorts before key b (tuples of str compare lexicographically)
KeyLess(a, b) ==
    \E i \in 1..Len(a) :
        /\ \A j \in 1..(i - 1) : a[j] = b[j]
        /\ StrLess(a[i], b[i])

RECURSIVE InsertKey(_, _)
InsertKey(s, x) ==
    IF s = <<>> THEN <<x>>
    ELSE IF KeyLess(x, s[1]) THEN <<x>> \o s
    ELSE <<s[1]>> \o InsertKey(Tail(s), x)

RECURSIVE SortKeys(_)
SortKeys(s) ==
    IF s = <<>> THEN <<>>
    ELSE InsertKey(SortKeys(SubSeq(s, 1, Len(s) - 1)), s[Len(s)])

\* groupby(cols) on the rows pd: the distinct keys, sorted
GroupKeys(pd, cols) ==
    SortKeys(drop_duplicates([i \in 1..Len(pd) |-> GroupKey(pd[i], cols)]))

\* the raw samples (row numbers of pd) of the group with key g
Members(pd, cols, g) ==
    SelectSeq([i \in 1..Len(pd) |-> i], LAMBDA i : GroupKey(pd[i], cols) = g)

RECURSIVE SumNum(_)
SumNum(s) == IF s = <<>> THEN 0 ELSE s[1].v + SumNum(Tail(s))

\* DataFrameGroupBy.mean(): the mean of the non-missing values, NaN if none
\* (in hundredths, truncated)
GroupMean(vals) ==
    LET present == SelectSeq(vals, LAMBDA x : ~IsNaN(x))
    IN  IF present = <<>> THEN NaN
        ELSE Num(SumNum(present) \div Len(present))

\* the value of column c in the key g over the columns cols
KeyValue(g, cols, c) == g[CHOOSE i \in 1..Len(cols) : cols[i] = c]

\* Variables: the key's values other than Biological, dash-joined
Variables(g, cols) ==
    Join(S_dash,
         LET idx == SelectSeq([i \in 1..Len(cols) |-> i],
                              LAMBDA i : cols[i] # S_Biological)
         IN  [n \in 1..Len(idx) |-> g[idx[n]]])

\* Sample_name of a biological-replicate group
Sample_name(g, cols) ==
    S_BioRep_ \o KeyValue(g, cols, S_Biological) \o S_dot \o Variables(g, cols)

\* the matrix after the technical replicates are averaged: row e holds
\* entity e, column n the group keys[n]
Averaged(as, pd, cols, keys) ==
    [e \in 1..Len(as) |->
        [n \in 1..Len(keys) |->
            GroupMean(LET m == Members(pd, cols, keys[n])
                      IN  [t \in 1..Len(m) |-> as[e][m[t]]])]]

\* nanvalues after the per-condition sum: the number of non-missing
\* biological samples the matrix row has in condition c
CoverageCount(row, keys, cols, c) ==
    Cardinality({n \in 1..Len(keys) :
                    KeyValue(keys[n], cols, S_Condition) = c /\ ~IsNaN(row[n])})

\* the coverage filter as it would be if coverage in any one condition
\* were enough
CoveredAccessions_any(rd, avg, keys, cols) ==
    {rd[e][S_Accession] : e \in
        {e \in 1..Len(rd) :
            \E n \in 1..Len(keys) :
                ~(CoverageCount(avg[e], keys, cols,
                                KeyValue(keys[n], cols, S_Condition)) <= 0)}}

\* nanvalues.index after dropna(): the accessions of the rows in which no
\* condition has a count <= 0
CoveredAccessions(rd, avg, keys, cols) ==
    {rd[e][S_Accession] : e \in
        {e \in 1..Len(rd) :
            \A n \in 1..Len(keys) :
                ~(CoverageCount(avg[e], keys, cols,
                                KeyValue(keys[n], cols, S_Condition)) <= 0)}}

\* the rows kept by index.isin(nanvalues.index)
Kept(rd, covered) ==
    SelectSeq([e \in 1..Len(rd) |-> e], LAMBDA e : rd[e][S_Accession] \in covered)

\* technical: the Sample values of a group, comma-joined
Technical(pd, cols, g) ==
    Join(S_comma, LET m == Members(pd, cols, g)
                  IN  [t \in 1..Len(m) |-> pd[m[t]][S_Sample]])

\* expression() as it would be if it left the feature metadata unfiltered
expression_of_all_features(pd, pcols, rd, as) ==
    LET cols == pdata_columns(pcols)
        keys == GroupKeys(pd, cols)
        avg == Averaged(as, pd, cols, keys)
        kept == Kept(rd, CoveredAccessions(rd, avg, keys, cols))
        names == [n \in 1..Len(keys) |-> Sample_name(keys[n], cols)]
        newcols == cols \o <<S_Sample, S_technical>>
    IN  [expression |->
            [columns |-> names,
             index |-> [r \in 1..Len(kept) |-> rd[kept[r]][S_Accession]],
             values |-> [r \in 1..Len(kept) |-> avg[kept[r]]]],
         pdata_cols |-> newcols,
         pdata |->
            [n \in 1..Len(keys) |->
                [c \in Range(newcols) |->
                    IF c = S_Sample THEN names[n]
                    ELSE IF c = S_technical THEN Technical(pd, cols, keys[n])
                    ELSE KeyValue(keys[n], cols, c)]],
         rdata |-> rd]

\* expression() on the sample metadata pd with columns pcols, the feature
\* metadata rd and the assay as: the matrix it returns and the pdata and
\* rdata it assigns to self.
expression_of(pd, pcols, rd, as) ==
    LET cols == pdata_columns(pcols)
        keys == GroupKeys(pd, cols)
        avg == Averaged(as, pd, cols, keys)
        kept == Kept(rd, CoveredAccessions(rd, avg, keys, cols))
        names == [n \in 1..Len(keys) |-> Sample_name(keys[n], cols)]
        newcols == cols \o <<S_Sample, S_technical>>
    IN  [expression |->
            [columns |-> names,
             index |-> [r \in 1..Len(kept) |-> rd[kept[r]][S_Accession]],
             values |-> [r \in 1..Len(kept) |-> avg[kept[r]]]],
         pdata_cols |-> newcols,
         pdata |->
            [n \in 1..Len(keys) |->
                [c \in Range(newcols) |->
                    IF c = S_Sample THEN names[n]
                    ELSE IF c = S_technical THEN Technical(pd, cols, keys[n])
                    ELSE KeyValue(keys[n], cols, c)]],
         rdata |-> [r \in 1..Len(kept) |-> rd[kept[r]]]]

\* expression() on self
expression_result == expression_of(pdata, pdata_cols, rdata, assay)

-----------------------------------------------------------------------------
(* The statistics module (Stats/, not part of the sources at hand): it     *)
(* yields one row per entity it is given, with the values stat_out holds   *)
(* for that entity.                                                        *)

\* the column name f'-log10({p})'
NegLogCol(p) == S_neglog10 \o p \o S_rparen

\* the value -log10(x), kept symbolic
NegLog10(x) == [k |-> "neglog10", v |-> x]

\* ['pvalue', 'pAdjusted', 'pTukey']
pvalues == <<S_pvalue, S_pAdjusted, S_pTukey>>

\* the column the plotting functions read the transformed p-value from
S_neglog10p == <<45, 108, 111, 103, 49, 48, 40, 112, 41>>   \* "-log10(p)"

QuantCols ==
    {S_gene_name, S_Accession, S_log2fc, S_TotalMean}
        \cup Range(pvalues) \cup {NegLogCol(p) : p \in Range(pvalues)}
        \cup (IF neglog_p THEN {S_neglog10p} ELSE {})

\* the StatisticsResult row of the entity with feature row r
QuantRow(r) ==
    LET st == stat_out[r[S_Accession]]
    IN  [c \in QuantCols |->
            IF c = S_gene_name THEN Str(r[S_gene_name])
            ELSE IF c = S_Accession THEN Str(r[S_Accession])
            ELSE IF c = S_log2fc THEN st.log2fc
            ELSE IF c = S_TotalMean THEN st.TotalMean
            ELSE IF c \in Range(pvalues) THEN st.p[c]
            ELSE IF c = S_neglog10p THEN NegLog10(st.p[pvalue])
            ELSE NegLog10(st.p[CHOOSE p \in Range(pvalues) : NegLogCol(p) = c])]

\* perform_static_stat / perform_longitudinal_stat on the filtered features
perform_stat(features) == [i \in 1..Len(features) |-> QuantRow(features[i])]

\* imported_stat: the statistics the user's table already carries
imported_stat == [i \in 1..Len(rdata) |-> QuantRow(rdata[i])]

-----------------------------------------------------------------------------
(* Omicscope.deps                                                          *)

\* the columns deps() projects to
DepsCols == <<S_gene_name, S_Accession, pvalue, NegLogCol(pvalue), S_log2fc>>

\* deps() as it would be with strict comparisons of the fold change
deps_of_strict(qd, pcut, fcut) ==
    LET bypval == SelectSeq(qd, LAMBDA r : FLt(r[pvalue], pcut))
        byfc == SelectSeq(bypval,
                          LAMBDA r : \/ FLt(r[S_log2fc], FNeg(fcut))
                                     \/ FLt(fcut, r[S_log2fc]))
    IN  [i \in 1..Len(byfc) |-> [c \in Range(DepsCols) |-> byfc[i][c]]]

\* deps() as it would be if it kept the fold changes within the cutoff
deps_of_within(qd, pcut, fcut) ==
    LET bypval == SelectSeq(qd, LAMBDA r : FLt(r[pvalue], pcut))
        byfc == SelectSeq(bypval,
                          LAMBDA r : /\ FGe(r[S_log2fc], FNeg(fcut))
                                     /\ FLe(r[S_log2fc], fcut))
    IN  [i \in 1..Len(byfc) |-> [c \in Range(DepsCols) |-> byfc[i][c]]]

\* deps() as it would be if it always filtered on the raw p-value and kept
\* only increases
deps_of_up_only(qd, pcut, fcut) ==
    LET bypval == SelectSeq(qd, LAMBDA r : FLt(r[S_pvalue], pcut))
        byfc == SelectSeq(bypval, LAMBDA r : FGe(r[S_log2fc], fcut))
    IN  [i \in 1..Len(byfc) |-> [c \in Range(DepsCols) |-> byfc[i][c]]]

\* the table deps() returns for quant_data qd under the cutoffs pcut, fcut

deps_of(qd, pcut, fcut) ==
    LET bypval == SelectSeq(qd, LAMBDA r : FLt(r[pvalue], pcut))
        byfc == SelectSeq(bypval,
                          LAMBDA r : \/ FLe(r[S_log2fc], FNeg(fcut))
                                     \/ FGe(r[S_log2fc], fcut))
    IN  [i \in 1..Len(byfc) |-> [c \in Range(DepsCols) |-> byfc[i][c]]]

\* deps() on self
deps_select == deps_of(quant_data, PValue_cutoff, FoldChange_cutoff)

-----------------------------------------------------------------------------
(* Omicscope.__init__, one action per stretch between the calls it makes.  *)

Raise(e) == pc' = "error" /\ error' = e

\* lines 66-77: store the arguments, validate the p-value kind
init_begin ==
    /\ pc = "init"
    /\ IF ~Contains(pvalues, pvalue)
       THEN Raise("ValueError")
       ELSE pc' = "define_conditions" /\ error' = error
    /\ UNCHANGED <<pdata, pdata_cols, rdata, rdata_stat, assay, ControlGroup,
                   ExperimentalDesign, pvalue, PValue_cutoff, FoldChange_cutoff,
                   experimental, Conditions, ctrl, expression, quant_data,
                   deps, attrs, calls, evars, figures, saved, dir, nvars>>

\* line 86: self.define_conditions()
init_define_conditions ==
    /\ pc = "define_conditions"
    /\ LET r == define_conditions
       IN  IF r.raised
           THEN /\ Raise("ValueError")
                /\ UNCHANGED <<ControlGroup, experimental, Conditions, attrs>>
           ELSE /\ ControlGroup' = [isNone |-> FALSE, label |-> r.ControlGroup]
                /\ experimental' = r.experimental
                /\ Conditions' = r.Conditions
                /\ attrs' = attrs \cup {"experimental", "Conditions"}
                /\ pc' = "statistics"
                /\ error' = error
    /\ UNCHANGED <<pdata, pdata_cols, rdata, rdata_stat, assay,
                   ExperimentalDesign, pvalue, PValue_cutoff, FoldChange_cutoff,
                   ctrl, expression, quant_data, deps, calls, evars, figures, saved, dir, nvars>>

\* lines 88, 92-97: the table already carries statistics
init_imported ==
    /\ pc = "statistics"
    /\ rdata_stat
    /\ ctrl' = ControlGroup.label
    /\ quant_data' = imported_stat
    /\ pdata' = [i \in 1..Len(pdata) |->
                    [pdata[i] EXCEPT ![S_Sample] =
                        pdata[i][S_Sample] \o S_dot \o pdata[i][S_Condition]]]
    /\ attrs' = attrs \cup {"ctrl", "quant_data"}
    /\ calls' = Append(calls, "imported_stat")
    /\ pc' = "deps"
    /\ UNCHANGED <<pdata_cols, rdata, rdata_stat, assay, ControlGroup,
                   ExperimentalDesign, pvalue, PValue_cutoff, FoldChange_cutoff,
                   experimental, Conditions, expression, deps, error,
                   evars, figures, saved, dir, nvars>>

\* self.expression = self.expression(), then the statistics procedure stat
\* on its result; more names the further attributes the branch assigns
RunExpressionAndStat(stat, more) ==
    LET er == expression_result
    IN  /\ ctrl' = ControlGroup.label
        /\ expression' = er.expression
        /\ pdata' = er.pdata
        /\ pdata_cols' = er.pdata_cols
        /\ rdata' = er.rdata
        /\ quant_data' = perform_stat(er.rdata)
        /\ attrs' = attrs \cup {"ctrl", "expression", "quant_data"} \cup more
        /\ calls' = calls \o <<"expression", stat>>
        /\ pc' = "deps"
        /\ UNCHANGED <<rdata_stat, assay, ControlGroup, ExperimentalDesign,
                       pvalue, PValue_cutoff, FoldChange_cutoff, experimental,
                       Conditions, deps, error, evars, figures, saved, dir, nvars>>

\* the static workflow as it would be under an if in place of the elif
init_static_whatever_the_columns ==
    /\ pc = "statistics"
    /\ ExperimentalDesign = "static"
    /\ RunExpressionAndStat("perform_static_stat", {})

\* lines 88, 99-106: the static workflow
init_static ==
    /\ pc = "statistics"
    /\ ~rdata_stat
    /\ ExperimentalDesign = "static"
    /\ RunExpressionAndStat("perform_static_stat", {})

\* lines 88, 107-112: the longitudinal workflow
init_longitudinal ==
    /\ pc = "statistics"
    /\ ~rdata_stat
    /\ ExperimentalDesign = "longitudinal"
    /\ RunExpressionAndStat("perform_longitudinal_stat", {"degrees_of_freedom"})

\* the last branch as it would be if an unknown design fell back to the
\* static workflow
init_invalid_design_runs_static ==
    /\ pc = "statistics"
    /\ ~rdata_stat
    /\ ExperimentalDesign \notin {"static", "longitudinal"}
    /\ RunExpressionAndStat("perform_static_stat", {})

\* lines 88, 113-117: no statistics column and no known design
init_invalid_design ==
    /\ pc = "statistics"
    /\ ~rdata_stat
    /\ ExperimentalDesign \notin {"static", "longitudinal"}
    /\ ctrl' = ControlGroup.label
    /\ attrs' = attrs \cup {"ctrl"}
    /\ Raise("ValueError")
    /\ UNCHANGED <<pdata, pdata_cols, rdata, rdata_stat, assay, ControlGroup,
                   ExperimentalDesign, pvalue, PValue_cutoff, FoldChange_cutoff,
                   experimental, Conditions, expression, quant_data, deps,
                   calls, evars, figures, saved, dir, nvars>>

\* lines 118-123: self.deps = self.deps()
init_deps ==
    /\ pc = "deps"
    /\ deps' = deps_select
    /\ attrs' = attrs \cup {"deps"}
    /\ calls' = Append(calls, "deps")
    /\ pc' = "done"
    /\ UNCHANGED <<pdata, pdata_cols, rdata, rdata_stat, assay, ControlGroup,
                   ExperimentalDesign, pvalue, PValue_cutoff, FoldChange_cutoff,
                   experimental, Conditions, ctrl, expression, quant_data,
                   error, evars, figures, saved, dir, nvars>>

-----------------------------------------------------------------------------
(* Text of numbers and tables: DataFrame.to_csv and pandas.read_csv.       *)

Digit(d) == 48 + d
IsDigit(c) == c \in 48..57

\* the decimal digits of the natural number n
RECURSIVE NatText(_)
NatText(n) == IF n < 10 THEN <<Digit(n)>> ELSE NatText(n \div 10) \o <<Digit(n % 10)>>

\* repr of a finite float given in hundredths: 150 is "1.5", 5 is "0.05",
\* 100 is "1.0", -150 is "-1.5"
FloatText(h) ==
    LET a == IF h < 0 THEN 0 - h ELSE h
        frac == a % 100
    IN  (IF h < 0 THEN S_dash ELSE <<>>)
            \o NatText(a \div 100) \o S_dot
            \o (IF frac % 10 = 0 THEN <<Digit(frac \div 10)>>
                ELSE <<Digit(frac \div 10), Digit(frac % 10)>>)

\* to_csv's text of a cell: a str as it is, NaN as the empty field
CellText(cell) ==
    IF cell.k = "str" THEN cell.v
    ELSE IF cell.k = "num" THEN FloatText(cell.v)
    ELSE IF cell.k = "inf" THEN (IF cell.v < 0 THEN S_dash ELSE <<>>) \o S_inf
    ELSE <<>>

\* to_csv(sep='\t', index=False) of the columns cols of the rows: the
\* header line, then one line per row
to_csv(rows, cols) ==
    <<cols>> \o [i \in 1..Len(rows) |-> [k \in 1..Len(cols) |-> CellText(rows[i][cols[k]])]]

\* strings read_csv reads as a missing value (its default na_values, in part)
NAStrings ==
    {<<>>, <<78, 65>>, <<110, 97, 110>>, <<78, 97, 78>>, <<78, 85, 76, 76>>,
     <<110, 117, 108, 108>>, <<78, 111, 110, 101>>, <<78, 47, 65>>, <<110, 47, 97>>}
    \* "", "NA", "nan", "NaN", "NULL", "null", "None", "N/A", "n/a"

\* the value of a string of digits
RECURSIVE DigitsValue(_)
DigitsValue(t) ==
    IF t = <<>> THEN 0 ELSE 10 * DigitsValue(SubSeq(t, 1, Len(t) - 1)) + (t[Len(t)] - 48)

AllDigits(t) == t # <<>> /\ \A i \in 1..Len(t) : IsDigit(t[i])

\* the text without a leading minus sign
Unsigned(t) == IF t # <<>> /\ t[1] = 45 THEN Tail(t) ELSE t

\* where the decimal point of u is, 0 if it has none
PointAt(u) == IF \E i \in 1..Len(u) : u[i] = 46
              THEN CHOOSE i \in 1..Len(u) : u[i] = 46 /\ \A j \in 1..(i - 1) : u[j] # 46
              ELSE 0

\* the text is a number read_csv parses as a float (decimal notation with
\* at most two decimals, or an infinity)
IsFloatText(t) ==
    LET u == Unsigned(t)
        dot == PointAt(u)
    IN  \/ u = S_inf
        \/ dot = 0 /\ AllDigits(u)
        \/ /\ dot > 0
           /\ AllDigits(SubSeq(u, 1, dot - 1))
           /\ AllDigits(SubSeq(u, dot + 1, Len(u)))
           /\ Len(u) - dot <= 2

\* the float a numeric text denotes
ParseFloat(t) ==
    LET u == Unsigned(t)
        dot == PointAt(u)
        sign == IF t # <<>> /\ t[1] = 45 THEN -1 ELSE 1
    IN  IF u = S_inf THEN [k |-> "inf", v |-> sign]
        ELSE IF dot = 0 THEN Num(sign * 100 * DigitsValue(u))
        ELSE LET fr == SubSeq(u, dot + 1, Len(u))
             IN  Num(sign * (100 * DigitsValue(SubSeq(u, 1, dot - 1))
                             + (IF Len(fr) = 1 THEN 10 * DigitsValue(fr)
                                ELSE DigitsValue(fr))))

\* field k of a line, the empty field if the line is shorter
Field(line, k) == IF k <= Len(line) THEN line[k] ELSE <<>>

\* pandas.read_csv(lines, header=header, sep='\t', nrows=nrows), nrows < 0
\* standing for no limit: blank lines are skipped, line number header of
\* the rest gives the column names (an empty one is named by its place), the
\* lines after it the rows; a column is numeric if every value present in
\* it is, else its values stay str
read_csv(lines, header, nrows) ==
    LET nb == SelectSeq(lines, LAMBDA l : l # << <<>> >>)
    IN  IF header + 1 > Len(nb)
        THEN [err |-> "ParserError", columns |-> <<>>, rows |-> <<>>]
        ELSE
        LET head == nb[header + 1]
            cols == [k \in 1..Len(head) |->
                        IF head[k] = <<>> THEN S_Unnamed \o NatText(k - 1) ELSE head[k]]
            avail == Len(nb) - (header + 1)
            n == IF nrows >= 0 /\ nrows < avail THEN nrows ELSE avail
            data == SubSeq(nb, header + 2, header + 1 + n)
            numeric == [k \in 1..Len(cols) |->
                            \A i \in 1..Len(data) :
                                \/ Field(data[i], k) \in NAStrings
                                \/ IsFloatText(Field(data[i], k))]
        IN  IF \E i \in 1..Len(data) : Len(data[i]) > Len(cols)
            THEN [err |-> "ParserError", columns |-> <<>>, rows |-> <<>>]
            ELSE [err |-> "none",
                  columns |-> cols,
                  rows |-> [i \in 1..Len(data) |->
                              [c \in Range(cols) |->
                                  LET k == CHOOSE k \in 1..Len(cols) : cols[k] = c
                                      t == Field(data[i], k)
                                  IN  IF t \in NAStrings THEN NaN
                                      ELSE IF numeric[k] THEN ParseFloat(t)
                                      ELSE Str(t)]]]

-----------------------------------------------------------------------------
(* Omicscope.savefile                                                      *)

\* the columns written to the file
FileCols == <<S_gene_name, S_Accession, pvalue, S_log2fc, S_TotalMean>>

\* '-'.join(data.Conditions) + '.omics'
savefile_name == Join(S_dash, Conditions) \o S_omics

\* the text as it would be with the marker written straight after the
\* Statistics: line
savefile_lines_marker_after_statistics ==
    << <<S_OmicScope>>,
       <<S_Provenance>>,
       <<S_ControlGroup, ctrl>>,
       <<S_Experimental_colon>>
           \o (IF experimental = <<>> THEN << <<>> >> ELSE experimental),
       <<S_Statistics_colon, pvalue>>,
       <<S_Marker>> >>
    \o to_csv(quant_data, FileCols)

\* the text savefile writes, line by line
savefile_lines ==
    << <<S_OmicScope>>,
       <<S_Provenance>>,
       <<S_ControlGroup, ctrl>>,
       <<S_Experimental_colon>>
           \o (IF experimental = <<>> THEN << <<>> >> ELSE experimental),
       <<S_Statistics_colon, pvalue>>,
       <<S_Expression_colon>>,
       <<S_Marker>> >>
    \o to_csv(quant_data, FileCols)

\* savefile(Path) on a constructed analysis: the file of that name in the
\* folder is created or overwritten
savefile ==
    /\ pc = "done"
    /\ dir' = [f \in (DOMAIN dir) \cup {savefile_name} |->
                  IF f = savefile_name THEN savefile_lines ELSE dir[f]]
    /\ saved' = saved \cup {Conditions}
    /\ UNCHANGED <<ovars, evars, figures, nvars>>

-----------------------------------------------------------------------------
(* A caller goes on using a constructed analysis: it assigns the cutoffs   *)
(* (plain attributes, lines 67-68) and calls deps() and expression() on    *)
(* it again.                                                               *)

\* how many calls the history variable calls records at most
MaxCalls == 5

\* the cutoffs a caller assigns, in hundredths
CutoffsP == {Num(1), Num(5)}
CutoffsFC == {Num(0), Num(100)}

\* data.PValue_cutoff = x
set_PValue_cutoff ==
    /\ pc = "done"
    /\ \E x \in CutoffsP \ {PValue_cutoff} : PValue_cutoff' = x
    /\ UNCHANGED <<pdata, pdata_cols, rdata, rdata_stat, assay, ControlGroup,
                   ExperimentalDesign, pvalue, FoldChange_cutoff,
                   experimental, Conditions, ctrl, expression, quant_data,
                   deps, attrs, pc, error, calls, evars, figures, saved, dir,
                   nvars>>

\* data.FoldChange_cutoff = x
set_FoldChange_cutoff ==
    /\ pc = "done"
    /\ \E x \in CutoffsFC \ {FoldChange_cutoff} : FoldChange_cutoff' = x
    /\ UNCHANGED <<pdata, pdata_cols, rdata, rdata_stat, assay, ControlGroup,
                   ExperimentalDesign, pvalue, PValue_cutoff,
                   experimental, Conditions, ctrl, expression, quant_data,
                   deps, attrs, pc, error, calls, evars, figures, saved, dir,
                   nvars>>

\* data.deps() on a constructed analysis. Line 118, self.deps = self.deps(),
\* has bound the name to the table, and calling a table raises TypeError;
\* where the name is still the method, the call returns the selection and
\* assigns nothing.
call_deps ==
    /\ pc = "done"
    /\ Len(calls) < MaxCalls
    /\ calls' = Append(calls, "deps")
    /\ error' = IF "deps" \in attrs THEN "TypeError" ELSE error
    /\ UNCHANGED <<pdata, pdata_cols, rdata, rdata_stat, assay, ControlGroup,
                   ExperimentalDesign, pvalue, PValue_cutoff, FoldChange_cutoff,
                   experimental, Conditions, ctrl, expression, quant_data,
                   deps, attrs, pc, evars, figures, saved, dir, nvars>>

\* data.expression() on a constructed analysis. Lines 102 and 109,
\* self.expression = self.expression(), have bound the name to the matrix,
\* and calling a matrix raises TypeError; where the name is still the
\* method (lines 145-196), the call assigns self.pdata and self.rdata.
call_expression ==
    /\ pc = "done"
    /\ Len(calls) < MaxCalls
    /\ calls' = Append(calls, "expression")
    /\ IF "expression" \in attrs
       THEN /\ error' = "TypeError"
            /\ UNCHANGED <<pdata, pdata_cols, rdata>>
       ELSE /\ error' = error
            /\ pdata' = expression_result.pdata
            /\ pdata_cols' = expression_result.pdata_cols
            /\ rdata' = expression_result.rdata
    /\ UNCHANGED <<rdata_stat, assay, ControlGroup,
                   ExperimentalDesign, pvalue, PValue_cutoff, FoldChange_cutoff,
                   experimental, Conditions, ctrl, expression, quant_data,
                   deps, attrs, pc, evars, figures, saved, dir, nvars>>

-----------------------------------------------------------------------------
(* GeneralVisualization: the plotting functions, by what they read and     *)
(* assign of the analysis they are handed.                                 *)

\* how many times a plotting function has added one to a -log10 value
PlusOf(c) == IF "plus" \in DOMAIN c THEN c.plus ELSE 0

\* 10 ** n
RECURSIVE Pow10(_)
Pow10(n) == IF n = 0 THEN 1 ELSE 10 * Pow10(n - 1)

\* the float a -log10 cell stands for, where it is not finite: -log10(0) is
\* inf, -log10(inf) is -inf, -log10 of nan or of a negative number is nan
NegLogClass(c) ==
    IF IsNaN(c.v) \/ (c.v.k = "num" /\ c.v.v < 0) \/ c.v = NegInf THEN "nan"
    ELSE IF c.v = Num(0) THEN "inf"
    ELSE IF c.v = PosInf THEN "-inf"
    ELSE "num"

\* a < b on the values of a numeric column: floats, or -log10 cells
\* (-log10(x) + n < -log10(y) + m exactly when y * 10**n < x * 10**m)
ValueLt(a, b) ==
    IF a.k # "neglog10" THEN FLt(a, b)
    ELSE LET ca == NegLogClass(a)
             cb == NegLogClass(b)
         IN  IF ca = "nan" \/ cb = "nan" THEN FALSE
             ELSE IF ca = "inf" THEN FALSE
             ELSE IF cb = "inf" THEN TRUE
             ELSE IF cb = "-inf" THEN FALSE
             ELSE IF ca = "-inf" THEN TRUE
             ELSE b.v.v * Pow10(PlusOf(a)) < a.v.v * Pow10(PlusOf(b))

\* x + d for a float x, d in hundredths
FAdd(x, d) == IF x.k = "num" THEN Num(x.v + d) ELSE x

\* x + 1 on the values of a numeric column
PlusOne(x) ==
    IF x.k # "neglog10" THEN FAdd(x, 100)
    ELSE IF NegLogClass(x) # "num" THEN x
    ELSE [k |-> "neglog10", v |-> x.v, plus |-> PlusOf(x) + 1]

\* x - 1 on the values of the fold-change column
MinusOne(x) == FAdd(x, -100)

\* whether a value of a numeric column is inf / -inf
IsPosInf(x) == IF x.k = "neglog10" THEN NegLogClass(x) = "inf" ELSE x = PosInf
IsNegInf(x) == IF x.k = "neglog10" THEN NegLogClass(x) = "-inf" ELSE x = NegInf

\* the builtin max(s) on a non-empty list: the first element that no later
\* element is greater than, comparing each element with the best so far
RECURSIVE MaxFrom(_, _)
MaxFrom(s, m) ==
    IF s = <<>> THEN m
    ELSE MaxFrom(Tail(s), IF ValueLt(m, Head(s)) THEN Head(s) ELSE m)

\* the builtin min(s) on a non-empty list
RECURSIVE MinFrom(_, _)
MinFrom(s, m) ==
    IF s = <<>> THEN m
    ELSE MinFrom(Tail(s), IF ValueLt(Head(s), m) THEN Head(s) ELSE m)

max(s) == MaxFrom(Tail(s), Head(s))
min(s) == MinFrom(Tail(s), Head(s))

\* [x for x in s if x < max(s)]
BelowMax(s) == SelectSeq(s, LAMBDA x : ValueLt(x, max(s)))
\* [x for x in s if x > min(s)]
AboveMin(s) == SelectSeq(s, LAMBDA x : ValueLt(min(s), x))

\* Series.replace([inf], v) and Series.replace([-inf], v)
ReplacePosInf(s, v) == [i \in 1..Len(s) |-> IF IsPosInf(s[i]) THEN v ELSE s[i]]
ReplaceNegInf(s, v) == [i \in 1..Len(s) |-> IF IsNegInf(s[i]) THEN v ELSE s[i]]

\* the table with column c assigned the values s (df[c] = s)
SetColumn(table, c, s) ==
    [i \in 1..Len(table) |-> [table[i] EXCEPT ![c] = s[i]]]

\* volcano_2cond lines 256-266, volcano_Multicond lines 114-124 and
\* volcano_qvalue lines 429-439: the definitions for the axes, on the table
\* df_initial = OmicScope.quant_data; the result is the error raised, if
\* any, and the table as the lines leave it
plot_axes(qd) ==
    LET fc == Column(qd, S_log2fc)
    IN  IF fc = <<>> \/ BelowMax(fc) = <<>> \/ AboveMin(fc) = <<>>
        THEN [err |-> "ValueError", table |-> qd]
        ELSE IF ~neglog_p
        THEN [err |-> "KeyError", table |-> qd]
        ELSE
        LET max_fc == max(BelowMax(fc))
            min_fc == min(AboveMin(fc))
            fc2 == ReplaceNegInf(ReplacePosInf(fc, PlusOne(max_fc)),
                                 MinusOne(min_fc))
            pval == Column(qd, S_neglog10p)
        IN  IF BelowMax(pval) = <<>>
            THEN [err |-> "ValueError", table |-> qd]
            ELSE LET max_pval == max(BelowMax(pval))
                     pval2 == ReplacePosInf(pval, PlusOne(max_pval))
                 IN  [err |-> "none",
                      table |-> SetColumn(SetColumn(qd, S_neglog10p, pval2),
                                          S_log2fc, fc2)]

\* A plotting function ran on the constructed analysis: what it assigned
\* of quant_data, the exception it raised and the figure it drew.
Plotted(qd, err, figure) ==
    /\ quant_data' = qd
    /\ error' = IF err = "none" THEN error ELSE err
    /\ figures' = IF err = "none" THEN figures \cup {figure} ELSE figures
    /\ UNCHANGED <<pdata, pdata_cols, rdata, rdata_stat, assay, ControlGroup,
                   ExperimentalDesign, pvalue, PValue_cutoff, FoldChange_cutoff,
                   experimental, Conditions, ctrl, expression, deps, attrs,
                   pc, calls, evars, saved, dir, nvars>>

\* volcano (lines 372-405): volcano_2cond for two conditions,
\* volcano_Multicond (which goes on to read the Comparison column the
\* statistics of several conditions may carry) for more, nothing otherwise
volcano ==
    /\ pc = "done"
    /\ LET r == plot_axes(quant_data)
       IN  IF Len(Conditions) = 2
           THEN Plotted(r.table, r.err, "volcano_2cond")
           ELSE IF Len(Conditions) > 2
           THEN \E hasComparison \in BOOLEAN :
                   Plotted(r.table,
                           IF r.err = "none" /\ ~hasComparison
                           THEN "AttributeError" ELSE r.err,
                           "volcano_Multicond")
           ELSE UNCHANGED vars

\* volcano_qvalue (lines 408-470)
volcano_qvalue ==
    /\ pc = "done"
    /\ LET r == plot_axes(quant_data)
       IN  Plotted(r.table, r.err, "volcano_qvalue")

\* bar_ident (lines 20-86): counts the rows of quant_data and of deps
bar_ident ==
    /\ pc = "done"
    /\ Plotted(quant_data, "none", "bar_ident")

\* MAplot (lines 906-956): works on copy.copy(OmicScope.quant_data), a new
\* table, and reads its '-log10(p)' column
MAplot ==
    /\ pc = "done"
    /\ Plotted(quant_data, IF neglog_p THEN "none" ELSE "KeyError", "MAplot")

-----------------------------------------------------------------------------
(* nebula.read_omics                                                       *)

\* a.endswith(p)
EndsWith(a, p) == Len(a) >= Len(p) /\ SubSeq(a, Len(a) - Len(p) + 1, Len(a)) = p

\* the orders in which a listing may yield the files S
Listings(S) ==
    {f \in [1..Cardinality(S) -> S] : \A i, j \in 1..Cardinality(S) : i # j => f[i] # f[j]}

\* str.replace(c, '', regex=False) for a single character c
RemoveChar(t, c) == SelectSeq(t, LAMBDA x : x # c[1])

\* str.split(sep) for a non-empty separator
RECURSIVE Split(_, _)
Split(t, sep) ==
    IF \E i \in 1..(Len(t) - Len(sep) + 1) : SubSeq(t, i, i + Len(sep) - 1) = sep
    THEN LET i == CHOOSE i \in 1..(Len(t) - Len(sep) + 1) :
                    /\ SubSeq(t, i, i + Len(sep) - 1) = sep
                    /\ \A j \in 1..(i - 1) : SubSeq(t, j, j + Len(sep) - 1) # sep
         IN  <<SubSeq(t, 1, i - 1)>> \o Split(SubSeq(t, i + Len(sep), Len(t)), sep)
    ELSE <<t>>

\* lines 69-72: the Genes text without quotes and brackets, split at ', '
UnwrapGenes(cell) ==
    IF cell.k # "str" THEN cell
    ELSE [k |-> "list",
          v |-> Split(RemoveChar(RemoveChar(RemoveChar(cell.v, S_quote), S_lbracket),
                                 S_rbracket),
                      S_comma_space)]

\* the positions (from 0) of the lines equal to the separator marker
Positions(lines) ==
    SelectSeq([n \in 1..Len(lines) |-> n - 1], LAMBDA n : lines[n + 1] = <<S_Marker>>)

\* line.split('\t')[-1].split('\n')[0]
LastField(line) == line[Len(line)]

\* an entry of the enrichment list
NoEnrichment == [isNone |-> TRUE, columns |-> <<>>, rows |-> <<>>]

\* what read_omics has collected before it reads its first file
ReadStart ==
    [groups |-> <<>>, labels |-> <<>>, original |-> <<>>, enrichment |-> <<>>,
     pvalue |-> <<>>, hasPvalue |-> FALSE, err |-> "none"]

\* the iteration as it would be if a file without a marker were passed over
ReadOne_passing_over_unmarked(acc, lines) ==
    IF Positions(lines) = <<>> THEN acc
    ELSE LET t == read_csv(lines, Positions(lines)[1] + 1, -1)
         IN  [acc EXCEPT !.original = Append(@, [columns |-> t.columns, rows |-> t.rows]),
                         !.enrichment = Append(@, NoEnrichment),
                         !.err = t.err]

\* lines 50-73: one iteration of the loop, on the lines of one file; the
\* .str accessor of lines 69-72 raises AttributeError on a Genes column
\* without any str value
ReadOne(acc, lines) ==
    LET positions == Positions(lines)
        exp == SelectSeq(lines, LAMBDA l : StartsWith(l[1], S_Experimental))
        found == [i \in 1..Len(exp) |-> LastField(exp[i])]
        stat == SelectSeq(lines, LAMBDA l : StartsWith(l[1], S_Statistics))
        scanned == [acc EXCEPT
                      !.groups = @ \o found,
                      !.labels = @ \o found,
                      !.pvalue = IF stat = <<>> THEN @ ELSE LastField(stat[Len(stat)]),
                      !.hasPvalue = @ \/ stat # <<>>]
    IN  IF Len(positions) = 1
        THEN LET t == read_csv(lines, positions[1] + 1, -1)
             IN  IF t.err # "none" THEN [scanned EXCEPT !.err = t.err]
                 ELSE [scanned EXCEPT
                         !.original = Append(@, [columns |-> t.columns, rows |-> t.rows]),
                         !.enrichment = Append(@, NoEnrichment)]
        ELSE IF Len(positions) = 0 THEN [scanned EXCEPT !.err = "IndexError"]
        ELSE IF positions[2] - 10 < 0 THEN [scanned EXCEPT !.err = "ValueError"]
        ELSE LET t == read_csv(lines, positions[1] + 1, positions[2] - 10)
                 en == read_csv(lines, positions[2], -1)
             IN  IF t.err # "none" THEN [scanned EXCEPT !.err = t.err]
                 ELSE IF en.err # "none" THEN [scanned EXCEPT !.err = en.err]
                 ELSE IF ~Contains(en.columns, S_Genes)
                      THEN [scanned EXCEPT !.err = "KeyError"]
                 ELSE IF /\ en.rows # <<>>
                         /\ \A i \in 1..Len(en.rows) : en.rows[i][S_Genes].k # "str"
                      THEN [scanned EXCEPT !.err = "AttributeError"]
                 ELSE [scanned EXCEPT
                         !.original = Append(@, [columns |-> t.columns, rows |-> t.rows]),
                         !.enrichment =
                            Append(@, [isNone |-> FALSE,
                                       columns |-> en.columns,
                                       rows |-> [i \in 1..Len(en.rows) |->
                                                   [en.rows[i] EXCEPT ![S_Genes] =
                                                        UnwrapGenes(@)]]])]

\* lines 49-80: the loop over the listing, ended by the first exception
RECURSIVE ReadFiles(_, _, _)
ReadFiles(d, files, acc) ==
    IF files = <<>> \/ acc.err # "none" THEN acc
    ELSE ReadFiles(d, Tail(files), ReadOne(acc, d[files[1]]))

\* read_omics(folder) on the folder content d listed in the order files
read_omics(d, files) ==
    IF Len(files) = 0 THEN [ReadStart EXCEPT !.err = "ValueError"]
    ELSE ReadFiles(d, files, ReadStart)

\* nebula.__init__, line 24: self.read_omics(folder); the listing is
\* glob.glob's, in an order the file system decides. An exception ends the
\* construction and leaves no object.
nebula_read_omics ==
    /\ npc = "idle"
    /\ \E files \in Listings({f \in DOMAIN dir : EndsWith(f, S_omics)}) :
          LET r == read_omics(dir, files)
          IN  /\ n_files' = files
              /\ IF r.err # "none"
                 THEN /\ npc' = "error"
                      /\ n_error' = r.err
                      /\ UNCHANGED <<n_groups, n_labels, n_original, n_enrichment,
                                     n_pvalue, n_attrs>>
                 ELSE /\ npc' = "importing"
                      /\ n_error' = n_error
                      /\ n_groups' = r.groups
                      /\ n_labels' = r.labels
                      /\ n_original' = r.original
                      /\ n_enrichment' = r.enrichment
                      /\ n_pvalue' = r.pvalue
                      /\ n_attrs' = {"groups", "colors", "labels", "original", "enrichment"}
                                      \cup (IF r.hasPvalue THEN {"pvalue"} ELSE {})
    /\ UNCHANGED <<n_group_data, ovars, evars, figures, saved, dir>>

-----------------------------------------------------------------------------
(* nebula.importing, the label check and nebula.remap                      *)

S_group == <<103, 114, 111, 117, 112>>      \* "group"
S_color == <<99, 111, 108, 111, 114>>       \* "color"

\* the pvalue_cutoff argument of nebula.__init__, at its default 0.05
pvalue_cutoff == Num(5)

\* Series.round() of a float: to the nearest integer, a half to the even one
round(x) ==
    IF x.k # "num" THEN x
    ELSE LET q == x.v \div 100
             r == x.v % 100
         IN  Num(100 * (IF r < 50 THEN q
                        ELSE IF r > 50 THEN q + 1
                        ELSE IF q % 2 = 0 THEN q ELSE q + 1))

\* a comes before b in sort_values: increasing, missing values last
SortsBefore(a, b) == IF IsNaN(b) THEN ~IsNaN(a) ELSE FLt(a, b)

\* the row r put into rows already sorted by column c, after its equals
RECURSIVE InsertRow(_, _, _)
InsertRow(rows, r, c) ==
    IF rows = <<>> THEN <<r>>
    ELSE IF SortsBefore(r[c], rows[1][c]) THEN <<r>> \o rows
    ELSE <<rows[1]>> \o InsertRow(Tail(rows), r, c)

\* DataFrame.sort_values(c, ignore_index=True)
RECURSIVE sort_values(_, _)
sort_values(rows, c) ==
    IF rows = <<>> THEN <<>>
    ELSE InsertRow(sort_values(SubSeq(rows, 1, Len(rows) - 1), c), rows[Len(rows)], c)

ImportedCols == <<S_gene_name, S_log2fc, S_group, S_color>>

\* lines 82-87: importing(original, group, label, pvalue_cutoff) with
\* self.pvalue = kind if the object has that attribute (hasKind)
importing(original, label, kind, hasKind) ==
    IF ~hasKind THEN [err |-> "AttributeError", table |-> <<>>]
    ELSE IF ~Contains(original.columns, kind) THEN [err |-> "KeyError", table |-> <<>>]
    ELSE IF \E i \in 1..Len(original.rows) : original.rows[i][kind].k = "str"
         THEN [err |-> "TypeError", table |-> <<>>]
    ELSE IF ~Contains(original.columns, S_gene_name) \/ ~Contains(original.columns, S_log2fc)
         THEN [err |-> "KeyError", table |-> <<>>]
    ELSE
    LET below == SelectSeq(original.rows, LAMBDA r : FLt(r[kind], pvalue_cutoff))
        df == sort_values(below, S_log2fc)
    IN  [err |-> "none",
         table |-> [columns |-> ImportedCols,
                    rows |-> [i \in 1..Len(df) |->
                                 [c \in Range(ImportedCols) |->
                                     IF c = S_group THEN Str(label)
                                     ELSE IF c = S_color THEN round(df[i][S_log2fc])
                                     ELSE df[i][c]]]]]

Min(a, b) == IF a < b THEN a ELSE b

\* nebula.__init__, lines 25-27: importing for each of zip(original, groups,
\* labels), which ends with the shortest of the three
nebula_importing ==
    /\ npc = "importing"
    /\ LET n == Min(Len(n_original), Min(Len(n_groups), Len(n_labels)))
           res == [i \in 1..n |->
                      importing(n_original[i], n_labels[i], n_pvalue, "pvalue" \in n_attrs)]
       IN  IF \E i \in 1..n : res[i].err # "none"
           THEN LET i == CHOOSE i \in 1..n :
                            res[i].err # "none" /\ \A j \in 1..(i - 1) : res[j].err = "none"
                IN  /\ npc' = "error"
                    /\ n_error' = res[i].err
                    /\ n_group_data' = [j \in 1..(i - 1) |-> res[j].table]
           ELSE /\ npc' = "check"
                /\ n_error' = n_error
                /\ n_group_data' = [i \in 1..n |-> res[i].table]
    /\ n_attrs' = n_attrs \cup {"group_data"}
    /\ UNCHANGED <<n_groups, n_labels, n_original, n_enrichment, n_pvalue, n_files,
                   ovars, evars, figures, saved, dir>>

\* the step as it would be without the check
nebula_check_labels_missing ==
    /\ npc = "check"
    /\ npc' = "remap"
    /\ UNCHANGED <<n_groups, n_labels, n_original, n_enrichment, n_group_data, n_pvalue,
                   n_files, n_attrs, n_error, ovars, evars, figures, saved, dir>>

\* nebula.__init__, lines 28-30: len(self.groups) != len(set(self.groups))
nebula_check_labels ==
    /\ npc = "check"
    /\ IF Len(n_groups) # Cardinality(Range(n_groups))
       THEN npc' = "error" /\ n_error' = "Exception"
       ELSE npc' = "remap" /\ n_error' = n_error
    /\ UNCHANGED <<n_groups, n_labels, n_original, n_enrichment, n_group_data, n_pvalue,
                   n_files, n_attrs, ovars, evars, figures, saved, dir>>

\* str.upper() on ASCII letters
upper(t) == [i \in 1..Len(t) |-> IF t[i] \in 97..122 THEN t[i] - 32 ELSE t[i]]

\* Series.str.upper(): a missing value stays missing
UpperCell(cell) == IF cell.k = "str" THEN Str(upper(cell.v)) ELSE NaN

\* pd.concat(self.original)[['gene_name']]: the names of all tables in
\* turn, missing for a table without the column
RECURSIVE AllNames(_)
AllNames(original) ==
    IF original = <<>> THEN <<>>
    ELSE LET t == original[Len(original)]
         IN  AllNames(SubSeq(original, 1, Len(original) - 1))
                \o [i \in 1..Len(t.rows) |->
                       IF Contains(t.columns, S_gene_name) THEN t.rows[i][S_gene_name]
                       ELSE NaN]

\* the dictionary as it would be with the first name kept for a key
remap_dic_first(original) ==
    LET names == drop_duplicates(AllNames(original))
    IN  [key \in {UpperCell(names[i]) : i \in 1..Len(names)} |->
            names[CHOOSE i \in 1..Len(names) :
                     /\ UpperCell(names[i]) = key
                     /\ \A j \in 1..(i - 1) : UpperCell(names[j]) # key]]

\* lines 91-94: the distinct names indexed by their upper-cased form, as a
\* dict: of the names with one key the last one stays
remap_dic(original) ==
    LET names == drop_duplicates(AllNames(original))
    IN  [key \in {UpperCell(names[i]) : i \in 1..Len(names)} |->
            names[CHOOSE i \in 1..Len(names) :
                     /\ UpperCell(names[i]) = key
                     /\ \A j \in (i + 1)..Len(names) : UpperCell(names[j]) # key]]

\* dic.get(g, g) for a name g of a gene list
Lookup(dic, g) == IF Str(g) \in DOMAIN dic THEN dic[Str(g)].v ELSE g

\* line 99 on one entry of the enrichment list: TypeError for None and for
\* a Genes value that is no list
RemapEntry(dic, e) ==
    IF e.isNone THEN [err |-> "TypeError", entry |-> e]
    ELSE IF \E i \in 1..Len(e.rows) : e.rows[i][S_Genes].k # "list"
         THEN [err |-> "TypeError", entry |-> e]
    ELSE [err |-> "none",
          entry |-> [e EXCEPT !.rows =
                        [i \in 1..Len(e.rows) |->
                            [e.rows[i] EXCEPT ![S_Genes] =
                                [k |-> "list",
                                 v |-> [j \in 1..Len(@.v) |-> Lookup(dic, @.v[j])]]]]]]

\* lines 89-103: remap(); .str.upper() raises AttributeError on a column
\* that holds missing values only; an entry whose rewrite raises TypeError
\* gives None
remap(original, enrichment) ==
    LET names == AllNames(original)
    IN  IF names # <<>> /\ \A i \in 1..Len(names) : names[i].k # "str"
        THEN [err |-> "AttributeError", enrichment |-> enrichment]
        ELSE LET dic == remap_dic(original)
             IN  [err |-> "none",
                  enrichment |-> [i \in 1..Len(enrichment) |->
                                     LET r == RemapEntry(dic, enrichment[i])
                                     IN  IF r.err = "TypeError" THEN NoEnrichment
                                         ELSE r.entry]]

\* nebula.__init__, lines 31-37: self.enrichment = self.remap()
nebula_remap ==
    /\ npc = "remap"
    /\ LET r == remap(n_original, n_enrichment)
       IN  IF r.err # "none"
           THEN /\ npc' = "error"
                /\ n_error' = r.err
                /\ UNCHANGED n_enrichment
           ELSE /\ npc' = "done"
                /\ n_error' = n_error
                /\ n_enrichment' = r.enrichment
    /\ UNCHANGED <<n_groups, n_labels, n_original, n_group_data, n_pvalue, n_files,
                   n_attrs, ovars, evars, figures, saved, dir>>

-----------------------------------------------------------------------------
(* Inputs.                                                                 *)

\* the sequences over S of length 1..n
SeqsUpTo(S, n) == UNION {[1..m -> S] : m \in 1..n}

\* "s1", "s2", ...: the raw sample identifiers
SampleId(i) == <<115, 48 + i>>
\* "P1", "P2", ...: the accessions
AccessionId(i) == <<80, 48 + i>>
\* "G1", "G2", ...: entity names
GeneId(i) == <<71, 48 + i>>

\* a row of the raw sample metadata
PRow(s, c, b) == (S_Sample :> s) @@ (S_Condition :> c) @@ (S_Biological :> b)
\* a row of the feature metadata
RRow(a, g) == (S_Accession :> a) @@ (S_gene_name :> g)

\* the raw sample metadata with the given condition and replicate columns
PData(conds, bios) == [i \in 1..Len(conds) |-> PRow(SampleId(i), conds[i], bios[i])]

RawCols == <<S_Sample, S_Condition, S_Biological>>

NoControl == [isNone |-> TRUE, label |-> <<>>]
Control(l) == [isNone |-> FALSE, label |-> l]

\* the statistics of one entity
Stat(p1, p2, p3, fc, mean) ==
    [p |-> (S_pvalue :> p1) @@ (S_pAdjusted :> p2) @@ (S_pTukey :> p3),
     log2fc |-> fc, TotalMean |-> mean]

\* Nothing has been constructed or assigned yet.
Unassigned ==
    /\ experimental = <<>>
    /\ Conditions = <<>>
    /\ ctrl = <<>>
    /\ expression = <<>>
    /\ quant_data = <<>>
    /\ deps = <<>>
    /\ attrs = {}
    /\ calls = <<>>
    /\ pc = "init"
    /\ error = "none"
    /\ figures = {}
    /\ saved = {}

NebulaIdle ==
    /\ n_groups = <<>>
    /\ n_labels = <<>>
    /\ n_original = <<>>
    /\ n_enrichment = <<>>
    /\ n_group_data = <<>>
    /\ n_pvalue = <<>>
    /\ n_files = <<>>
    /\ n_attrs = {}
    /\ npc = "idle"
    /\ n_error = "none"

-----------------------------------------------------------------------------
(* Spec: construction of an analysis, over the sample metadata, the        *)
(* control argument, the design and the p-value kind.                      *)

CondLabels == {S_KO, S_WT, S_Ab}

\* The object as super().__init__ and lines 67-73 leave it.
Constructed ==
    /\ pdata = Table.pdata
    /\ pdata_cols = RawCols
    /\ rdata = Table.rdata
    /\ assay = Table.assay
    /\ ControlGroup = arg_ControlGroup
    /\ Unassigned

Init ==
    /\ \E conds \in SeqsUpTo(CondLabels, MaxSamples) :
          Table = [pdata |-> PData(conds, [i \in 1..Len(conds) |-> S_1]),
                   rdata |-> <<RRow(AccessionId(1), GeneId(1))>>,
                   assay |-> <<[j \in 1..Len(conds) |-> Num(100 * j)]>>]
    /\ arg_ControlGroup \in {NoControl} \cup {Control(l) : l \in {S_KO, S_WT, S_XX}}
    /\ rdata_stat \in BOOLEAN
    /\ ExperimentalDesign \in {"static", "longitudinal", "crossover"}
    /\ pvalue \in Range(pvalues) \cup {S_pOther}
    /\ PValue_cutoff = Num(5)
    /\ FoldChange_cutoff = Num(0)
    /\ stat_out = (AccessionId(1) :> Stat(Num(1), Num(1), Num(1), Num(150), Num(100)))
    /\ hash_order = <<S_Condition, S_Biological>>
    /\ neglog_p = FALSE
    /\ dir = <<>>
    /\ Constructed
    /\ NebulaIdle

Next ==
    \/ init_begin
    \/ init_define_conditions
    \/ init_imported
    \/ init_static
    \/ init_longitudinal
    \/ init_invalid_design
    \/ init_deps

Spec == Init /\ [][Next]_vars

-----------------------------------------------------------------------------
(* SpecExpr: the static workflow over the sample metadata (conditions and  *)
(* biological replicates), the missing values of the assay and the hash    *)
(* order of the process.                                                   *)

\* the assay row of an entity measured in the samples flagged in present
AssayRow(present) == [j \in 1..Len(present) |-> IF present[j] THEN Num(100 * j) ELSE NaN]

DefaultStat == Stat(Num(1), Num(1), Num(1), Num(150), Num(100))

InitExpr ==
    /\ \E n \in 1..MaxSamples :
         \E conds \in [1..n -> {S_KO, S_WT}], bios \in [1..n -> {S_1, S_2}],
            row1 \in [1..n -> BOOLEAN],
            row2 \in {[j \in 1..n |-> TRUE], [j \in 1..n |-> FALSE]} :
              Table = [pdata |-> PData(conds, bios),
                       rdata |-> <<RRow(AccessionId(1), GeneId(1)),
                                   RRow(AccessionId(2), GeneId(2))>>,
                       assay |-> <<AssayRow(row1), AssayRow(row2)>>]
    /\ arg_ControlGroup = NoControl
    /\ rdata_stat = FALSE
    /\ ExperimentalDesign = "static"
    /\ pvalue = S_pAdjusted
    /\ PValue_cutoff = Num(5)
    /\ FoldChange_cutoff = Num(0)
    /\ stat_out = (AccessionId(1) :> DefaultStat) @@ (AccessionId(2) :> DefaultStat)
    /\ hash_order \in {<<S_Condition, S_Biological>>, <<S_Biological, S_Condition>>}
    /\ neglog_p = FALSE
    /\ dir = <<>>
    /\ Constructed
    /\ NebulaIdle

NextExpr ==
    \/ init_begin
    \/ init_define_conditions
    \/ init_static
    \/ init_deps

SpecExpr == InitExpr /\ [][NextExpr]_vars

-----------------------------------------------------------------------------
(* SpecDeps: the static workflow over the statistics of the entities, the  *)
(* cutoffs and the p-value kind.                                           *)

\* the three p-values of an entity (raw, FDR-adjusted, post-hoc), in
\* hundredths; the post-hoc value may be missing
PTriples ==
    {<<Num(1), Num(9), Num(9)>>, <<Num(9), Num(1), Num(5)>>, <<Num(5), Num(9), NaN>>}

\* log2 fold changes, in hundredths
FoldChanges == {Num(-150), Num(0), Num(50), Num(150), NaN, PosInf}

StatDomain ==
    {Stat(t[1], t[2], t[3], fc, Num(100)) : t \in PTriples, fc \in FoldChanges}

InitDeps ==
    /\ Table = [pdata |-> PData(<<S_WT, S_KO>>, <<S_1, S_1>>),
                rdata |-> [e \in 1..MaxEntities |-> RRow(AccessionId(e), GeneId(e))],
                assay |-> [e \in 1..MaxEntities |-> <<Num(100), Num(200)>>]]
    /\ arg_ControlGroup = NoControl
    /\ rdata_stat = FALSE
    /\ ExperimentalDesign = "static"
    /\ pvalue \in Range(pvalues)
    /\ PValue_cutoff \in {Num(5), Num(1)}
    /\ FoldChange_cutoff \in {Num(0), Num(100), Num(-100)}
    /\ stat_out \in [{AccessionId(e) : e \in 1..MaxEntities} -> StatDomain]
    /\ hash_order = <<S_Condition, S_Biological>>
    /\ neglog_p = FALSE
    /\ dir = <<>>
    /\ Constructed
    /\ NebulaIdle

SpecDeps == InitDeps /\ [][NextExpr]_vars

-----------------------------------------------------------------------------
(* SpecFile: an analysis is constructed, saved with savefile and the       *)
(* folder is loaded by nebula; over the conditions, the control argument,  *)
(* the p-value kind, the entity names and the statistics.                  *)

S_NA == <<78, 65>>      \* "NA", as an entity name

\* statistics of an entity as written to a file
FileStatDomain ==
    {Stat(p, p, p, fc, Num(100)) : p \in {Num(1), NaN}, fc \in {Num(-5), PosInf}}

InitFile ==
    /\ \E conds \in {<<S_WT, S_KO>>, <<S_WT, S_KO, S_Ab>>},
          names \in [1..MaxEntities -> BOOLEAN] :
          Table = [pdata |-> PData(conds, [i \in 1..Len(conds) |-> S_1]),
                   rdata |-> [e \in 1..MaxEntities |->
                                 RRow(AccessionId(e),
                                      IF names[e] THEN GeneId(e) ELSE S_NA)],
                   assay |-> [e \in 1..MaxEntities |->
                                 [j \in 1..Len(conds) |-> Num(100 * j)]]]
    /\ arg_ControlGroup \in {NoControl, Control(S_WT)}
    /\ rdata_stat = FALSE
    /\ ExperimentalDesign = "static"
    /\ pvalue \in Range(pvalues)
    /\ PValue_cutoff = Num(5)
    /\ FoldChange_cutoff = Num(0)
    /\ stat_out \in [{AccessionId(e) : e \in 1..MaxEntities} -> FileStatDomain]
    /\ hash_order = <<S_Condition, S_Biological>>
    /\ neglog_p = FALSE
    /\ dir = <<>>
    /\ Constructed
    /\ NebulaIdle

NextFile ==
    \/ init_begin
    \/ init_define_conditions
    \/ init_static
    \/ init_deps
    \/ savefile
    \/ nebula_read_omics

SpecFile == InitFile /\ [][NextFile]_vars

-----------------------------------------------------------------------------
(* SpecRead: nebula loads a folder whose files were put there from         *)
(* outside; over the lines above the marker, the number of markers and the *)
(* table below.                                                            *)

S_a_omics == <<97>> \o S_omics                      \* "a.omics"
S_b_omics == <<98>> \o S_omics                      \* "b.omics"
S_notes == <<110, 111, 116, 101, 115>>              \* "notes"

BlankLine == << <<>> >>
MarkerLine == <<S_Marker>>

\* the lines above the first marker: with one or two experimental labels,
\* either p-value kind, and with or without an empty line
Preambles ==
    UNION {{<< <<S_OmicScope>>, e, st >>, << <<S_OmicScope>>, BlankLine, e, st >>} :
             e \in {<<S_Experimental_colon, S_KO>>, <<S_Experimental_colon, S_KO, S_WT>>},
             st \in {<<S_Statistics_colon, S_pvalue>>, <<S_Statistics_colon, S_pAdjusted>>}}

\* lines of a table: a name and a p-value
TableRows == {<<GeneId(1), FloatText(1)>>, <<S_NA, <<>> >>, <<GeneId(2), S_inf>>}

Tables ==
    {<< <<S_gene_name, S_pvalue>> >> \o rows :
        rows \in {<<>>} \cup SeqsUpTo(TableRows, MaxRows)}

\* an enrichment table of one term
EnrichmentLines ==
    << <<S_Genes>>,
       << S_lbracket \o S_quote \o GeneId(1) \o S_quote \o S_comma_space
             \o S_quote \o GeneId(2) \o S_quote \o S_rbracket >> >>

\* a file with a table of two rows and an enrichment table, its second
\* marker ten lines below the start plus the two rows
TwoSectionFile ==
    << <<S_OmicScope>>, <<S_Provenance>>, <<S_ControlGroup, S_WT>>,
       <<S_Experimental_colon, S_KO>>, <<S_Statistics_colon, S_pvalue>>,
       <<S_Expression_colon>>, MarkerLine,
       <<S_gene_name, S_pvalue>>, <<GeneId(1), FloatText(1)>>, <<GeneId(2), FloatText(5)>>,
       BlankLine, <<S_Genes>>, MarkerLine >>
    \o EnrichmentLines

\* the files: with one marker, with none, with two
OutsideFiles ==
    {pre \o <<MarkerLine>> \o t : pre \in Preambles, t \in Tables}
        \cup {pre \o << <<S_gene_name, S_pvalue>> >> : pre \in Preambles}
        \cup {pre \o <<MarkerLine, <<S_gene_name, S_pvalue>>, MarkerLine>> \o EnrichmentLines :
                pre \in Preambles}
        \cup {TwoSectionFile}

InitRead ==
    /\ Table = [pdata |-> PData(<<S_WT, S_KO>>, <<S_1, S_1>>),
                rdata |-> <<RRow(AccessionId(1), GeneId(1))>>,
                assay |-> << <<Num(100), Num(200)>> >>]
    /\ arg_ControlGroup = NoControl
    /\ rdata_stat = FALSE
    /\ ExperimentalDesign = "static"
    /\ pvalue = S_pvalue
    /\ PValue_cutoff = Num(5)
    /\ FoldChange_cutoff = Num(0)
    /\ stat_out = (AccessionId(1) :> Stat(Num(1), Num(1), Num(1), Num(150), Num(100)))
    /\ hash_order = <<S_Condition, S_Biological>>
    /\ neglog_p = FALSE
    /\ \E f \in OutsideFiles :
          dir \in {(S_a_omics :> f),
                   (S_a_omics :> f) @@ (S_b_omics :> TwoSectionFile),
                   (S_a_omics :> f) @@ (S_notes :> <<BlankLine>>)}
    /\ Constructed
    /\ NebulaIdle

NextRead == nebula_read_omics

SpecRead == InitRead /\ [][NextRead]_vars

-----------------------------------------------------------------------------
(* SpecSections: nebula reads a folder of one file with two markers; over  *)
(* the number of lines above the first marker, the rows of the table and   *)
(* the lines between the table and the second marker.                      *)

S_hash == <<35>>                                                 \* "#"
S_Enrichment_colon == <<69, 110, 114, 105, 99, 104, 109, 101, 110, 116, 58>>  \* "Enrichment:"
S_Term == <<84, 101, 114, 109>>                                  \* "Term"
S_T1 == <<84, 49>>                                               \* "T1"

\* the lines above the first marker: the six savefile writes, four of
\* them, or the six after three lines of comment
SectionPreambles ==
    LET six == << <<S_OmicScope>>, <<S_Provenance>>, <<S_ControlGroup, S_WT>>,
                  <<S_Experimental_colon, S_KO>>, <<S_Statistics_colon, S_pvalue>>,
                  <<S_Expression_colon>> >>
    IN  {six, SubSeq(six, 3, 6), << <<S_hash>>, <<S_hash>>, <<S_hash>> >> \o six}

\* rows of a result table: name, p-value, log2 fold-change
SectionRows ==
    {<<GeneId(1), FloatText(1), FloatText(150)>>, <<GeneId(2), FloatText(9), FloatText(-50)>>}

\* the lines between the table and the second marker
Trailers == {<<BlankLine, <<S_Enrichment_colon>> >>, << <<S_Enrichment_colon>> >>}

\* an enrichment table of one term with two genes
SectionEnrichment ==
    << <<S_Term, S_Genes>>,
       << S_T1, S_lbracket \o S_quote \o GeneId(1) \o S_quote \o S_comma_space
                   \o S_quote \o GeneId(2) \o S_quote \o S_rbracket >> >>

SectionFiles ==
    {pre \o <<MarkerLine, <<S_gene_name, S_pvalue, S_log2fc>> >> \o rows \o tr
         \o <<MarkerLine>> \o SectionEnrichment :
       pre \in SectionPreambles,
       rows \in {<<>>} \cup SeqsUpTo(SectionRows, MaxRows),
       tr \in Trailers}

InitSections ==
    /\ Table = [pdata |-> PData(<<S_WT, S_KO>>, <<S_1, S_1>>),
                rdata |-> <<RRow(AccessionId(1), GeneId(1))>>,
                assay |-> << <<Num(100), Num(200)>> >>]
    /\ arg_ControlGroup = NoControl
    /\ rdata_stat = FALSE
    /\ ExperimentalDesign = "static"
    /\ pvalue = S_pvalue
    /\ PValue_cutoff = Num(5)
    /\ FoldChange_cutoff = Num(0)
    /\ stat_out = (AccessionId(1) :> Stat(Num(1), Num(1), Num(1), Num(150), Num(100)))
    /\ hash_order = <<S_Condition, S_Biological>>
    /\ neglog_p = FALSE
    /\ \E f \in SectionFiles :
          dir \in {(S_a_omics :> f), (S_a_omics :> f) @@ (S_notes :> <<BlankLine>>)}
    /\ Constructed
    /\ NebulaIdle

SpecSections == InitSections /\ [][NextRead]_vars

-----------------------------------------------------------------------------
(* SpecNebula: nebula(folder) on a folder of no, one or two study files;   *)
(* over the files' Experimental: and Statistics: lines, their marker and   *)
(* the rows of their tables.                                               *)

\* rows of a study's table: name, p-value, log2 fold-change
StudyRows ==
    {<<GeneId(1), FloatText(1), FloatText(250)>>,
     <<GeneId(2), FloatText(5), FloatText(-50)>>,
     <<GeneId(3), FloatText(9), FloatText(150)>>}

\* a study file: its Experimental: line if it has a label, its Statistics:
\* line if it names a kind, its marker if marked, and its table
StudyFile(label, kind, marked, rows) ==
    << <<S_OmicScope>>, <<S_Provenance>>, <<S_ControlGroup, S_WT>> >>
        \o (IF label = <<>> THEN <<>> ELSE << <<S_Experimental_colon, label>> >>)
        \o (IF kind = <<>> THEN <<>> ELSE << <<S_Statistics_colon, kind>> >>)
        \o << <<S_Expression_colon>> >>
        \o (IF marked THEN <<MarkerLine>> ELSE <<>>)
        \o << <<S_gene_name, IF kind = <<>> THEN S_pvalue ELSE kind, S_log2fc>> >>
        \o rows

StudyFiles ==
    {StudyFile(label, kind, marked, rows) :
        label \in {<<>>, S_KO, S_Ab},
        kind \in {<<>>, S_pvalue, S_pAdjusted},
        marked \in BOOLEAN,
        rows \in {<<>>} \cup SeqsUpTo(StudyRows, MaxRows)}

\* the files a second study may be
SecondFiles ==
    {StudyFile(S_KO, S_pvalue, TRUE, <<CHOOSE r \in StudyRows : r[1] = GeneId(1)>>),
     StudyFile(S_Ab, S_pAdjusted, TRUE, <<CHOOSE r \in StudyRows : r[1] = GeneId(3)>>),
     StudyFile(<<>>, S_pvalue, TRUE, <<CHOOSE r \in StudyRows : r[1] = GeneId(1)>>)}

InitNebula ==
    /\ Table = [pdata |-> PData(<<S_WT, S_KO>>, <<S_1, S_1>>),
                rdata |-> <<RRow(AccessionId(1), GeneId(1))>>,
                assay |-> << <<Num(100), Num(200)>> >>]
    /\ arg_ControlGroup = NoControl
    /\ rdata_stat = FALSE
    /\ ExperimentalDesign = "static"
    /\ pvalue = S_pvalue
    /\ PValue_cutoff = Num(5)
    /\ FoldChange_cutoff = Num(0)
    /\ stat_out = (AccessionId(1) :> Stat(Num(1), Num(1), Num(1), Num(150), Num(100)))
    /\ hash_order = <<S_Condition, S_Biological>>
    /\ neglog_p = FALSE
    /\ \/ dir \in {<<>>, (S_notes :> <<BlankLine>>)}
       \/ \E f \in StudyFiles : dir = (S_a_omics :> f)
       \/ \E f \in StudyFiles, g \in SecondFiles :
             dir = (S_a_omics :> f) @@ (S_b_omics :> g)
    /\ Constructed
    /\ NebulaIdle

NextNebula ==
    \/ nebula_read_omics
    \/ nebula_importing
    \/ nebula_check_labels
    \/ nebula_remap

SpecNebula == InitNebula /\ [][NextNebula]_vars

-----------------------------------------------------------------------------
(* SpecRemap: nebula(folder) on a folder of one or two study files with    *)
(* or without an enrichment table; over the entity names, the terms and    *)
(* their gene lists.                                                       *)

S_Tp53 == <<84, 112, 53, 51>>       \* "Tp53"
S_TP53 == <<84, 80, 53, 51>>        \* "TP53"
S_T2 == <<84, 50>>                  \* "T2"
S_T3 == <<84, 51>>                  \* "T3"

\* the text of a gene list: "['a', 'b']"
GenesText(genes) ==
    S_lbracket
        \o Join(S_comma_space, [i \in 1..Len(genes) |-> S_quote \o genes[i] \o S_quote])
        \o S_rbracket

\* the rows of an enrichment table: a term and its genes, one of them
\* without any
TermRows ==
    {<<S_T1, GenesText(<<S_Tp53, GeneId(2)>>)>>,
     <<S_T2, GenesText(<<S_TP53>>)>>,
     <<S_T3, <<>> >>}

\* a study file in the layout savefile writes, the table's rows named by
\* names, followed by the enrichment table of the given rows if it has one
RemapFile(label, names, hasTerms, terms) ==
    << <<S_OmicScope>>, <<S_Provenance>>, <<S_ControlGroup, S_WT>>,
       <<S_Experimental_colon, label>>, <<S_Statistics_colon, S_pvalue>>,
       <<S_Expression_colon>>, MarkerLine, <<S_gene_name, S_pvalue, S_log2fc>> >>
        \o [i \in 1..Len(names) |-> <<names[i], FloatText(1), FloatText(150)>>]
        \o (IF hasTerms
            THEN <<BlankLine, <<S_Enrichment_colon>>, MarkerLine, <<S_Term, S_Genes>> >>
                    \o terms
            ELSE <<>>)

RemapFiles ==
    {RemapFile(S_KO, names, FALSE, <<>>) : names \in SeqsUpTo({S_Tp53, S_TP53, GeneId(1)}, MaxRows)}
        \cup {RemapFile(S_KO, names, TRUE, terms) :
                 names \in SeqsUpTo({S_Tp53, S_TP53, GeneId(1)}, MaxRows),
                 terms \in {<<>>} \cup SeqsUpTo(TermRows, MaxTerms)}

SecondRemapFiles ==
    {RemapFile(S_Ab, <<S_TP53>>, FALSE, <<>>),
     RemapFile(S_Ab, <<S_Tp53>>, TRUE, << <<S_T2, GenesText(<<S_TP53>>)>> >>),
     RemapFile(S_Ab, <<GeneId(1)>>, TRUE, << <<S_T1, GenesText(<<S_Tp53, GeneId(2)>>)>> >>)}

InitRemap ==
    /\ Table = [pdata |-> PData(<<S_WT, S_KO>>, <<S_1, S_1>>),
                rdata |-> <<RRow(AccessionId(1), GeneId(1))>>,
                assay |-> << <<Num(100), Num(200)>> >>]
    /\ arg_ControlGroup = NoControl
    /\ rdata_stat = FALSE
    /\ ExperimentalDesign = "static"
    /\ pvalue = S_pvalue
    /\ PValue_cutoff = Num(5)
    /\ FoldChange_cutoff = Num(0)
    /\ stat_out = (AccessionId(1) :> Stat(Num(1), Num(1), Num(1), Num(150), Num(100)))
    /\ hash_order = <<S_Condition, S_Biological>>
    /\ neglog_p = FALSE
    /\ \/ \E f \in RemapFiles : dir = (S_a_omics :> f)
       \/ \E f \in RemapFiles, g \in SecondRemapFiles :
             dir = (S_a_omics :> f) @@ (S_b_omics :> g)
    /\ Constructed
    /\ NebulaIdle

SpecRemap == InitRemap /\ [][NextNebula]_vars

-----------------------------------------------------------------------------
(* SpecPlot: an analysis is constructed, plotted any number of times and   *)
(* saved; over the number of conditions, the statistics of the entities    *)
(* (zero p-values and infinite fold changes among them) and the columns    *)
(* the statistics module yields.                                           *)

\* statistics of an entity as the plots meet them
PlotStatDomain ==
    {Stat(p, p, p, fc, Num(100)) :
        p \in {Num(0), Num(1), Num(5)},
        fc \in {Num(-150), Num(50), PosInf, NegInf, NaN}}

InitPlot ==
    /\ \E conds \in {<<S_WT, S_KO>>, <<S_WT, S_KO, S_Ab>>} :
          Table = [pdata |-> PData(conds, [i \in 1..Len(conds) |-> S_1]),
                   rdata |-> [e \in 1..MaxEntities |->
                                 RRow(AccessionId(e), GeneId(e))],
                   assay |-> [e \in 1..MaxEntities |->
                                 [j \in 1..Len(conds) |-> Num(100 * j)]]]
    /\ arg_ControlGroup = NoControl
    /\ rdata_stat = FALSE
    /\ ExperimentalDesign = "static"
    /\ pvalue = S_pvalue
    /\ PValue_cutoff = Num(5)
    /\ FoldChange_cutoff = Num(0)
    /\ stat_out \in [{AccessionId(e) : e \in 1..MaxEntities} -> PlotStatDomain]
    /\ hash_order = <<S_Condition, S_Biological>>
    /\ neglog_p \in BOOLEAN
    /\ dir = <<>>
    /\ Constructed
    /\ NebulaIdle

NextPlot ==
    \/ init_begin
    \/ init_define_conditions
    \/ init_static
    \/ init_deps
    \/ volcano
    \/ volcano_qvalue
    \/ bar_ident
    \/ MAplot
    \/ savefile

SpecPlot == InitPlot /\ [][NextPlot]_vars

-----------------------------------------------------------------------------
(* SpecReuse: an analysis is constructed by the static workflow and then   *)
(* used further: its cutoffs are assigned and deps() and expression() are  *)
(* called on it; over the missing values of the assay and the statistics   *)
(* of the entities.                                                        *)

\* statistics of an entity: on either side of each cutoff
ReuseStatDomain ==
    {Stat(p, p, p, fc, Num(100)) : p \in {Num(0), Num(3)}, fc \in {Num(50), Num(150)}}

InitReuse ==
    /\ \E present \in [1..MaxEntities -> BOOLEAN] :
          Table = [pdata |-> PData(<<S_WT, S_KO>>, <<S_1, S_1>>),
                   rdata |-> [e \in 1..MaxEntities |->
                                 RRow(AccessionId(e), GeneId(e))],
                   assay |-> [e \in 1..MaxEntities |->
                                 <<Num(100), IF present[e] THEN Num(200) ELSE NaN>>]]
    /\ arg_ControlGroup = NoControl
    /\ rdata_stat = FALSE
    /\ ExperimentalDesign = "static"
    /\ pvalue = S_pvalue
    /\ PValue_cutoff \in CutoffsP
    /\ FoldChange_cutoff \in CutoffsFC
    /\ stat_out \in [{AccessionId(e) : e \in 1..MaxEntities} -> ReuseStatDomain]
    /\ hash_order = <<S_Condition, S_Biological>>
    /\ neglog_p = FALSE
    /\ dir = <<>>
    /\ Constructed
    /\ NebulaIdle

NextReuse ==
    \/ init_begin
    \/ init_define_conditions
    \/ init_static
    \/ init_deps
    \/ set_PValue_cutoff
    \/ set_FoldChange_cutoff
    \/ call_deps
    \/ call_expression

SpecReuse == InitReuse /\ [][NextReuse]_vars

-----------------------------------------------------------------------------
(* SpecNames: the static workflow over sample metadata with or without an  *)
(* additional grouping column, and over the hash order of the process.     *)

S_TimeCourse == <<84, 105, 109, 101, 67, 111, 117, 114, 115, 101>>   \* "TimeCourse"

\* the orders in which a set of column names can iterate
Orders(S) ==
    {s \in [1..Cardinality(S) -> S] : \A i, j \in 1..Cardinality(S) : i # j => s[i] # s[j]}

InitNames ==
    /\ \E n \in 1..MaxSamples :
         \E conds \in [1..n -> {S_KO, S_WT}], bios \in [1..n -> {S_1, S_2}],
            times \in [1..n -> {S_1, S_2}], extra \in BOOLEAN :
              /\ Table = [pdata |->
                             [i \in 1..n |->
                                 IF extra
                                 THEN PRow(SampleId(i), conds[i], bios[i])
                                        @@ (S_TimeCourse :> times[i])
                                 ELSE PRow(SampleId(i), conds[i], bios[i])],
                          rdata |-> <<RRow(AccessionId(1), GeneId(1))>>,
                          assay |-> <<[j \in 1..n |-> Num(100 * j)]>>]
              /\ pdata_cols = IF extra THEN RawCols \o <<S_TimeCourse>> ELSE RawCols
              /\ ~extra => times = [i \in 1..n |-> S_1]
    /\ hash_order \in Orders(Range(pdata_cols) \ {S_Sample})
    /\ pdata = Table.pdata
    /\ rdata = Table.rdata
    /\ assay = Table.assay
    /\ arg_ControlGroup = NoControl
    /\ ControlGroup = arg_ControlGroup
    /\ rdata_stat = FALSE
    /\ ExperimentalDesign = "static"
    /\ pvalue = S_pvalue
    /\ PValue_cutoff = Num(5)
    /\ FoldChange_cutoff = Num(0)
    /\ stat_out = (AccessionId(1) :> DefaultStat)
    /\ neglog_p = FALSE
    /\ dir = <<>>
    /\ Unassigned
    /\ NebulaIdle

SpecNames == InitNames /\ [][NextExpr]_vars

-----------------------------------------------------------------------------
(* SpecStudies: nebula(folder) on a folder of one or two study files that  *)
(* each have their Experimental: line, Statistics: line and marker; over   *)
(* the labels, the p-value kinds, the p-value columns of the tables and    *)
(* the names of the entities.                                              *)

S_Experimentalis == S_Experimental \o <<105, 115>>      \* "Experimentalis", an entity name

\* rows of a study's table: name, raw p-value, adjusted p-value, log2
\* fold-change
StudyTableRows ==
    {<<GeneId(1), FloatText(1), FloatText(9), FloatText(250)>>,
     <<GeneId(2), FloatText(9), FloatText(1), FloatText(-50)>>,
     <<S_Experimentalis, FloatText(1), FloatText(1), FloatText(150)>>}

\* the table columns of a study file of the given kind: the column of its
\* kind alone, as savefile writes it, or both p-value columns
StudyColumns(kind, both) ==
    IF both THEN <<1, 2, 3, 4>> ELSE IF kind = S_pvalue THEN <<1, 2, 4>> ELSE <<1, 3, 4>>

\* a study file in the layout savefile writes
WholeStudyFile(label, kind, both, rows) ==
    LET pick == StudyColumns(kind, both)
        header == <<S_gene_name, S_pvalue, S_pAdjusted, S_log2fc>>
    IN  << <<S_OmicScope>>, <<S_Provenance>>, <<S_ControlGroup, S_WT>>,
           <<S_Experimental_colon, label>>, <<S_Statistics_colon, kind>>,
           <<S_Expression_colon>>, MarkerLine,
           [k \in 1..Len(pick) |-> header[pick[k]]] >>
        \o [i \in 1..Len(rows) |-> [k \in 1..Len(pick) |-> rows[i][pick[k]]]]

WholeStudyFiles ==
    {WholeStudyFile(label, kind, both, rows) :
        label \in {S_KO, S_Ab},
        kind \in {S_pvalue, S_pAdjusted},
        both \in BOOLEAN,
        rows \in SeqsUpTo(StudyTableRows, MaxRows)}

\* the files a second study may be
SecondStudyFiles ==
    {WholeStudyFile(S_Ab, kind, both,
                    <<CHOOSE r \in StudyTableRows : r[1] = GeneId(1),
                      CHOOSE r \in StudyTableRows : r[1] = GeneId(2)>>) :
        kind \in {S_pvalue, S_pAdjusted}, both \in BOOLEAN}

InitStudies ==
    /\ Table = [pdata |-> PData(<<S_WT, S_KO>>, <<S_1, S_1>>),
                rdata |-> <<RRow(AccessionId(1), GeneId(1))>>,
                assay |-> << <<Num(100), Num(200)>> >>]
    /\ arg_ControlGroup = NoControl
    /\ rdata_stat = FALSE
    /\ ExperimentalDesign = "static"
    /\ pvalue = S_pvalue
    /\ PValue_cutoff = Num(5)
    /\ FoldChange_cutoff = Num(0)
    /\ stat_out = (AccessionId(1) :> Stat(Num(1), Num(1), Num(1), Num(150), Num(100)))
    /\ hash_order = <<S_Condition, S_Biological>>
    /\ neglog_p = FALSE
    /\ \/ \E f \in WholeStudyFiles : dir = (S_a_omics :> f)
       \/ \E f \in WholeStudyFiles, g \in SecondStudyFiles :
             dir = (S_a_omics :> f) @@ (S_b_omics :> g)
    /\ Constructed
    /\ NebulaIdle

SpecStudies == InitStudies /\ [][NextNebula]_vars

-----------------------------------------------------------------------------
(* SpecSave: analyses are constructed one after the other and saved into   *)
(* one folder; over their condition labels, the control argument and the   *)
(* statistics.                                                             *)

S_KO_Ab == S_KO \o S_dash \o S_Ab      \* "KO-Ab", one condition label

\* the condition labels of the raw samples of an analysis, in row order
SaveConditions == {<<S_WT, S_KO>>, <<S_WT, S_KO_Ab>>, <<S_WT, S_KO, S_Ab>>}

\* the statistics of the one entity
SaveStats == {Stat(Num(1), Num(1), Num(1), fc, Num(100)) : fc \in {Num(50), Num(150)}}

\* the constructor's inputs
SaveInputs(conds, st) ==
    /\ Table = [pdata |-> PData(conds, [i \in 1..Len(conds) |-> S_1]),
                rdata |-> <<RRow(AccessionId(1), GeneId(1))>>,
                assay |-> <<[j \in 1..Len(conds) |-> Num(100 * j)]>>]
    /\ stat_out = (AccessionId(1) :> st)

InitSave ==
    /\ \E conds \in SaveConditions, st \in SaveStats : SaveInputs(conds, st)
    /\ arg_ControlGroup \in {NoControl, Control(S_WT)}
    /\ rdata_stat = FALSE
    /\ ExperimentalDesign = "static"
    /\ pvalue = S_pvalue
    /\ PValue_cutoff = Num(5)
    /\ FoldChange_cutoff = Num(0)
    /\ hash_order = <<S_Condition, S_Biological>>
    /\ neglog_p = FALSE
    /\ dir = <<>>
    /\ Constructed
    /\ NebulaIdle

\* Omicscope(...) once more (lines 28-73): a further analysis, with its own
\* table and control argument, takes the place of the one at hand; the
\* folder stays as it is
construct_another ==
    /\ pc \in {"done", "error"}
    /\ \E conds \in SaveConditions, st \in SaveStats :
          /\ Table' = [pdata |-> PData(conds, [i \in 1..Len(conds) |-> S_1]),
                       rdata |-> <<RRow(AccessionId(1), GeneId(1))>>,
                       assay |-> <<[j \in 1..Len(conds) |-> Num(100 * j)]>>]
          /\ stat_out' = (AccessionId(1) :> st)
    /\ arg_ControlGroup' \in {NoControl, Control(S_WT)}
    /\ pdata' = Table'.pdata
    /\ pdata_cols' = RawCols
    /\ rdata' = Table'.rdata
    /\ assay' = Table'.assay
    /\ ControlGroup' = arg_ControlGroup'
    /\ experimental' = <<>>
    /\ Conditions' = <<>>
    /\ ctrl' = <<>>
    /\ expression' = <<>>
    /\ quant_data' = <<>>
    /\ deps' = <<>>
    /\ attrs' = {}
    /\ calls' = <<>>
    /\ pc' = "init"
    /\ error' = "none"
    /\ UNCHANGED <<rdata_stat, ExperimentalDesign, pvalue, PValue_cutoff,
                   FoldChange_cutoff, hash_order, neglog_p, figures, saved, dir,
                   nvars>>

NextSave ==
    \/ init_begin
    \/ init_define_conditions
    \/ init_static
    \/ init_deps
    \/ savefile
    \/ construct_another

SpecSave == InitSave /\ [][NextSave]_vars

-----------------------------------------------------------------------------
(* Properties of the condition assignment (checked under Spec).            *)

\* the distinct condition labels of the raw sample metadata
RawLabels == Range(Column(Table.pdata, S_Condition))

\* the row of the raw sample metadata in which label l first appears
FirstRow(l) ==
    CHOOSE i \in 1..Len(Table.pdata) :
        /\ Table.pdata[i][S_Condition] = l
        /\ \A j \in 1..(i - 1) : Table.pdata[j][S_Condition] # l

\* define_conditions has run and assigned self.Conditions
Resolved == "Conditions" \in attrs

\* C4: with no control supplied, the control is the lexicographically
\* smallest distinct condition label and the experimental set is the other
\* distinct labels in increasing order; for the labels WT and KO the control
\* is KO and the experimental set is [WT].
C4_DefaultControlIsSmallest ==
    (Resolved /\ arg_ControlGroup.isNone) =>
        /\ ControlGroup.label \in RawLabels
        /\ \A l \in RawLabels : ~StrLess(l, ControlGroup.label)
        /\ Range(experimental) = RawLabels \ {ControlGroup.label}
        /\ \A i, j \in 1..Len(experimental) :
              i < j => StrLess(experimental[i], experimental[j])
        /\ (RawLabels = {S_WT, S_KO} =>
              ControlGroup.label = S_KO /\ experimental = <<S_WT>>)

\* C4's case: the samples list WT before KO, no control is supplied, and
\* KO became the control.
C4_Witness ==
    /\ Resolved
    /\ arg_ControlGroup.isNone
    /\ Column(Table.pdata, S_Condition) = <<S_WT, S_KO>>
    /\ ControlGroup.label = S_KO
    /\ experimental = <<S_WT>>

\* C5: with a supplied control that occurs in the condition column, the
\* control is the supplied label and the experimental set is every other
\* distinct label, once each, in the order of first appearance in the
\* sample metadata.
C5_SuppliedControlKeepsInsertionOrder ==
    (Resolved /\ ~arg_ControlGroup.isNone) =>
        /\ ControlGroup.label = arg_ControlGroup.label
        /\ Range(experimental) = RawLabels \ {arg_ControlGroup.label}
        /\ Len(experimental) = Cardinality(RawLabels) - 1
        /\ \A i, j \in 1..Len(experimental) :
              i < j => FirstRow(experimental[i]) < FirstRow(experimental[j])

\* C5's case: control KO supplied, WT appears before Ab although Ab sorts
\* before WT.
C5_Witness ==
    /\ Resolved
    /\ arg_ControlGroup = Control(S_KO)
    /\ Column(Table.pdata, S_Condition) = <<S_WT, S_KO, S_Ab>>
    /\ experimental = <<S_WT, S_Ab>>

\* the supplied control does not occur in the condition column
ControlAbsent ==
    ~arg_ControlGroup.isNone /\ arg_ControlGroup.label \notin RawLabels

\* C6: when the supplied control does not occur in the condition column,
\* construction ends in define_conditions with a ValueError: it never gets
\* past that call, and no condition assignment, expression matrix,
\* statistics or differential set is assigned.
C6_AbsentControlStopsConstruction ==
    ControlAbsent =>
        /\ pc \in {"init", "define_conditions", "error"}
        /\ (pc = "error" => error = "ValueError")
        /\ attrs = {}
        /\ Conditions = <<>> /\ expression = <<>>
        /\ quant_data = <<>> /\ deps = <<>>

\* C6's case: a valid p-value kind, an absent control, and construction
\* ended by define_conditions.
C6_Witness ==
    /\ ControlAbsent
    /\ Contains(pvalues, pvalue)
    /\ pc = "error"
    /\ error = "ValueError"

\* C7: every condition assignment has the control as its first element,
\* holds each distinct condition label of the sample metadata exactly once
\* and has as many elements as there are distinct labels.
C7_AssignmentIsControlThenEachLabelOnce ==
    Resolved =>
        /\ Conditions[1] = ControlGroup.label
        /\ Range(Conditions) = RawLabels
        /\ Len(Conditions) = Cardinality(RawLabels)
        /\ \A i, j \in 1..Len(Conditions) : i # j => Conditions[i] # Conditions[j]
        /\ Conditions = <<ControlGroup.label>> \o experimental

\* C7's case: a label borne by two samples, on either path.
C7_Witness ==
    /\ Resolved
    /\ Len(Table.pdata) > Cardinality(RawLabels)
    /\ Cardinality(RawLabels) >= 2
    /\ ~arg_ControlGroup.isNone

-----------------------------------------------------------------------------
(* Properties of the expression matrix (checked under SpecExpr).           *)

\* expression() has run and its result is held by self.expression
Built == "expression" \in attrs

\* entity e of the raw tables has a non-missing value in some raw sample of
\* condition c (so the biological sample holding it is non-missing)
HasCoverage(e, c) ==
    \E j \in 1..Len(Table.pdata) :
        /\ Table.pdata[j][S_Condition] = c
        /\ ~IsNaN(Table.assay[e][j])

\* C3: once expression() has run, an entity is in the expression matrix
\* exactly if every condition has a non-missing biological sample for it;
\* coverage in the other conditions does not save an entity that has none
\* in one condition.
C3_SurvivesIffCoveredInEveryCondition ==
    Built =>
        /\ \A e \in 1..Len(Table.rdata) :
              Contains(expression.index, Table.rdata[e][S_Accession])
                  <=> \A c \in RawLabels : HasCoverage(e, c)
        /\ \A i \in 1..Len(expression.index) :
              \E e \in 1..Len(Table.rdata) :
                  expression.index[i] = Table.rdata[e][S_Accession]

\* C3's case: the first entity has no value in KO and a value in every WT
\* sample and is dropped; the second entity is covered and kept.
C3_Witness ==
    /\ Built
    /\ RawLabels = {S_KO, S_WT}
    /\ \A j \in 1..Len(Table.pdata) :
          IsNaN(Table.assay[1][j]) <=> Table.pdata[j][S_Condition] = S_KO
    /\ expression.index = <<AccessionId(2)>>

-----------------------------------------------------------------------------
(* Properties of the differential set (checked under SpecDeps).            *)

\* self.deps holds the table deps() returned
Selected == "deps" \in attrs

\* p lies below the cutoff c: both are numbers and p is the smaller
Below(p, c) == p.k = "num" /\ c.k = "num" /\ p.v < c.v

\* the fold change fc is at least c away from zero, on either side; an
\* infinite fold change is beyond every finite cutoff, a missing one beyond
\* none
Beyond(fc, c) ==
    \/ fc.k = "num" /\ (fc.v <= 0 - c.v \/ fc.v >= c.v)
    \/ fc.k = "inf"

\* the row of quant_data with projection d, if d is one
IsProjectionOf(d, r) == \A c \in Range(DepsCols) : d[c] = r[c]

\* row i of quant_data is in the differential set
InDeps(i) == \E n \in 1..Len(deps) : IsProjectionOf(deps[n], quant_data[i])

\* C1: deps() returns exactly the rows with p < p_cutoff and
\* (log2fc <= -fc_cutoff or log2fc >= fc_cutoff), for the chosen p-value
\* column, each once; with cutoffs 0.05 and 1.0, of the rows
\* (p = 0.01, log2fc = 1.5) and (p = 0.01, log2fc = 0.5) only the first.
C1_DepsIsExactlyThePredicate ==
    Selected =>
        /\ \A i \in 1..Len(quant_data) :
              InDeps(i) <=>
                  /\ Below(quant_data[i][pvalue], PValue_cutoff)
                  /\ Beyond(quant_data[i][S_log2fc], FoldChange_cutoff)
        /\ \A n \in 1..Len(deps) :
              \E i \in 1..Len(quant_data) : IsProjectionOf(deps[n], quant_data[i])
        /\ \A m, n \in 1..Len(deps) :
              m # n => deps[m][S_Accession] # deps[n][S_Accession]

\* C1's case: cutoffs 0.05 and 1.0, a first row with p = 0.01 and
\* log2fc = 1.5 and a second with p = 0.01 and log2fc = 0.5; only the first
\* is selected.
C1_Witness ==
    /\ Selected
    /\ PValue_cutoff = Num(5) /\ FoldChange_cutoff = Num(100)
    /\ quant_data[1][pvalue] = Num(1) /\ quant_data[1][S_log2fc] = Num(150)
    /\ quant_data[2][pvalue] = Num(1) /\ quant_data[2][S_log2fc] = Num(50)
    /\ Len(deps) = 1
    /\ deps[1][S_Accession] = quant_data[1][S_Accession]

\* C2 as claimed: with the fold-change cutoff 0, the rows below the p-value
\* cutoff that are selected are exactly those with a non-zero fold change.
C2_Claimed_OnlyNonZeroChangeQualifies ==
    (Selected /\ FoldChange_cutoff = Num(0)) =>
        \A i \in 1..Len(quant_data) :
            Below(quant_data[i][pvalue], PValue_cutoff) =>
                (InDeps(i) <=> quant_data[i][S_log2fc] # Num(0))

\* C2 as amended: with the fold-change cutoff 0, every row below the
\* p-value cutoff whose fold change is not missing is selected, a row with
\* fold change 0 included, and no other row is.
C2_ZeroCutoffExcludesNoChange ==
    (Selected /\ FoldChange_cutoff = Num(0)) =>
        \A i \in 1..Len(quant_data) :
            InDeps(i) <=>
                /\ Below(quant_data[i][pvalue], PValue_cutoff)
                /\ ~IsNaN(quant_data[i][S_log2fc])

\* C2's case: under the cutoff 0 a row with p below the cutoff and fold
\* change 0 is in the differential set.
C2_Witness ==
    /\ Selected
    /\ FoldChange_cutoff = Num(0)
    /\ \E i \in 1..Len(quant_data) :
          /\ quant_data[i][S_log2fc] = Num(0)
          /\ Below(quant_data[i][pvalue], PValue_cutoff)
          /\ InDeps(i)

-----------------------------------------------------------------------------
(* Properties of the saved file and of reading it (checked under SpecFile  *)
(* and SpecRead).                                                          *)

\* the text in a file stands for the value of the cell written
Written(cell, text) ==
    \/ cell.k = "str" /\ text = cell.v
    \/ cell.k = "nan" /\ text = <<>>
    \/ cell.k \in {"num", "inf"} /\ IsFloatText(text) /\ ParseFloat(text) = cell

\* the cell read from a file stands for the text
ReadAs(text, cell) ==
    IF text \in NAStrings THEN cell = NaN
    ELSE \/ cell = Str(text)
         \/ IsFloatText(text) /\ cell = ParseFloat(text)

\* the analysis has been saved
Saved == pc = "done" /\ savefile_name \in DOMAIN dir

\* lines 1 to 5 of the saved file and its table from line k on
SavedHeadAndTable(lines, k) ==
    /\ Len(lines) = k + Len(quant_data)
    /\ lines[1] = <<S_OmicScope>>
    /\ lines[2] = <<S_Provenance>>
    /\ lines[3] = <<S_ControlGroup, ctrl>>
    /\ lines[4] = <<S_Experimental_colon>> \o experimental
    /\ lines[5] = <<S_Statistics_colon, pvalue>>
    /\ lines[k] = <<S_gene_name, S_Accession, pvalue, S_log2fc, S_TotalMean>>
    /\ \A i \in 1..Len(quant_data) :
          /\ Len(lines[k + i]) = 5
          /\ \A j \in 1..5 : Written(quant_data[i][lines[k][j]], lines[k + i][j])

\* C9 as claimed: the saved file is the format line, the provenance line,
\* the ControlGroup: line, the Experimental: line, the Statistics: line, the
\* marker, then the table; the marker occurs once, directly after the
\* Statistics: line.
C9_Claimed_MarkerDirectlyAfterStatistics ==
    Saved =>
        LET lines == dir[savefile_name]
        IN  /\ SavedHeadAndTable(lines, 7)
            /\ lines[6] = <<S_Marker>>
            /\ Positions(lines) = <<5>>

\* C9: the saved file is the format line, the provenance line, the
\* ControlGroup: line, the Experimental: line with the experimental labels,
\* the Statistics: line with the p-value column, an Expression: line, the
\* marker, then the table of name, accession, chosen p-value, log2
\* fold-change and mean; the marker occurs once, directly after the
\* Expression: line, which is directly after the Statistics: line.
C9_SavedFileLineOrder ==
    Saved =>
        LET lines == dir[savefile_name]
        IN  /\ SavedHeadAndTable(lines, 8)
            /\ lines[6] = <<S_Expression_colon>>
            /\ lines[7] = <<S_Marker>>
            /\ Positions(lines) = <<6>>

\* C9's case: an analysis with two experimental conditions and two entities
\* has been saved.
C9_Witness ==
    /\ Saved
    /\ Len(experimental) = 2
    /\ Len(quant_data) = 2
    /\ Len(dir[savefile_name]) = 10

\* the folder holding the saved file alone has been loaded
Loaded ==
    /\ Saved
    /\ npc = "importing"
    /\ n_files = <<savefile_name>>

\* C8: loading the saved file gives the rows that were saved, the control
\* label, the full list of experimental labels and the p-value kind.
C8_RoundTripReproducesTheStudy ==
    Loaded =>
        /\ Range(n_original[1].rows)
              = {[c \in Range(FileCols) |-> quant_data[i][c]] : i \in 1..Len(quant_data)}
        /\ "ControlGroup" \in n_attrs
        /\ n_groups = experimental
        /\ n_pvalue = pvalue

\* What the round trip does keep: the p-value kind, the last experimental
\* label, and the rows whose names are not read as missing values.
RoundTripKeeps ==
    Loaded =>
        /\ n_pvalue = pvalue
        /\ n_groups = <<experimental[Len(experimental)]>>
        /\ n_labels = n_groups
        /\ n_attrs = {"groups", "colors", "labels", "original", "enrichment", "pvalue"}
        /\ n_original[1].columns = FileCols
        /\ Len(n_original[1].rows) = Len(quant_data)
        /\ \A i \in 1..Len(quant_data) : \A c \in Range(FileCols) :
              n_original[1].rows[i][c] =
                  IF quant_data[i][c].k = "str" /\ quant_data[i][c].v \in NAStrings
                  THEN NaN ELSE quant_data[i][c]

\* the folder has been read without an exception
ReadDone == npc = "importing"

\* C10: for a file with exactly one marker line, the table read is the
\* rest of the file below the marker, its first line the column names and
\* every later line one row, and the enrichment entry is absent.
C10_OneMarkerTableIsTheRestBelow ==
    ReadDone =>
        \A f \in 1..Len(n_files) :
            LET lines == dir[n_files[f]]
                marker == Positions(lines)
            IN  Len(marker) = 1 =>
                  LET below == SubSeq(lines, marker[1] + 2, Len(lines))
                  IN  /\ n_original[f].columns = below[1]
                      /\ Len(n_original[f].rows) = Len(below) - 1
                      /\ \A i \in 1..Len(n_original[f].rows) :
                            \A j \in 1..Len(below[1]) :
                                ReadAs(Field(below[i + 1], j),
                                       n_original[f].rows[i][below[1][j]])
                      /\ n_enrichment[f] = NoEnrichment

\* a line of the file above the marker is empty
BlankAbove(lines) ==
    \E i \in 1..Len(lines) :
        /\ lines[i] = BlankLine
        /\ \A j \in 1..i : lines[j] # MarkerLine

\* What holds of one-marker files without an empty line above the marker.
OneMarkerNoBlankIsTheRestBelow ==
    ReadDone =>
        \A f \in 1..Len(n_files) :
            LET lines == dir[n_files[f]]
                marker == Positions(lines)
            IN  (Len(marker) = 1 /\ ~BlankAbove(lines)) =>
                  LET below == SubSeq(lines, marker[1] + 2, Len(lines))
                  IN  /\ n_original[f].columns = below[1]
                      /\ Len(n_original[f].rows) = Len(below) - 1
                      /\ \A i \in 1..Len(n_original[f].rows) :
                            \A j \in 1..Len(below[1]) :
                                ReadAs(Field(below[i + 1], j),
                                       n_original[f].rows[i][below[1][j]])
                      /\ n_enrichment[f] = NoEnrichment

-----------------------------------------------------------------------------
(* Properties of the choice of the statistics path (checked under Spec).   *)

\* the statistics procedures among the calls made
StatisticsCalls ==
    SelectSeq(calls, LAMBDA c : c \in {"imported_stat", "perform_static_stat",
                                      "perform_longitudinal_stat"})

\* the statistics stage of the construction is over
StatisticsDone == pc \in {"deps", "done"}

\* C19: with a statistics column in the feature table the pre-computed
\* pass-through is taken whatever the design: no static or longitudinal
\* procedure and no expression builder runs and every sample is renamed
\* <name>.<condition>; without one exactly the procedure of the design runs;
\* never two statistics procedures run.
C19_OneStatisticsPathPreComputedFirst ==
    /\ Len(StatisticsCalls) <= 1
    /\ StatisticsDone =>
          IF rdata_stat
          THEN /\ StatisticsCalls = <<"imported_stat">>
               /\ ~Contains(calls, "expression")
               /\ "expression" \notin attrs
               /\ Len(pdata) = Len(Table.pdata)
               /\ \A i \in 1..Len(pdata) :
                     /\ pdata[i][S_Sample] = Table.pdata[i][S_Sample] \o S_dot
                                                \o Table.pdata[i][S_Condition]
                     /\ pdata[i][S_Condition] = Table.pdata[i][S_Condition]
          ELSE /\ ExperimentalDesign = "static"
                     => StatisticsCalls = <<"perform_static_stat">>
               /\ ExperimentalDesign = "longitudinal"
                     => StatisticsCalls = <<"perform_longitudinal_stat">>
               /\ ExperimentalDesign \in {"static", "longitudinal"}

\* C19's case: statistics columns and a design that is neither static nor
\* longitudinal; the analysis is constructed through the pass-through.
C19_Witness ==
    /\ pc = "done"
    /\ rdata_stat
    /\ ExperimentalDesign = "crossover"
    /\ calls = <<"imported_stat", "deps">>
    /\ Len(pdata) = 2
    /\ pdata[1][S_Sample] = SampleId(1) \o S_dot \o pdata[1][S_Condition]

\* the configuration is valid
ValidKind == Contains(pvalues, pvalue)
ValidDesign == rdata_stat \/ ExperimentalDesign \in {"static", "longitudinal"}

\* C20: a constructed analysis has a valid p-value kind and, without a
\* statistics column, the static or the longitudinal design; with an
\* invalid kind or design the construction raises ValueError and no
\* StatisticsResult and no DifferentialSet is produced.
C20_InvalidConfigurationRaises ==
    /\ pc = "done" => (ValidKind /\ ValidDesign)
    /\ ~ValidKind =>
          /\ pc \in {"init", "error"}
          /\ calls = <<>>
    /\ ~(ValidKind /\ ValidDesign) =>
          /\ ~StatisticsDone
          /\ StatisticsCalls = <<>>
          /\ "quant_data" \notin attrs /\ quant_data = <<>>
          /\ "deps" \notin attrs /\ deps = <<>>
          /\ pc = "error" => error = "ValueError"

\* C20's case: a valid kind, no statistics column and an unknown design;
\* the conditions were resolved and the construction has raised.
C20_Witness ==
    /\ pc = "error"
    /\ error = "ValueError"
    /\ ValidKind
    /\ ~rdata_stat
    /\ ExperimentalDesign = "crossover"
    /\ "Conditions" \in attrs
    /\ "quant_data" \notin attrs

\* C20 for the p-value kind: an unknown kind has raised before anything ran.
C20_WitnessKind ==
    /\ pc = "error"
    /\ pvalue = S_pOther
    /\ attrs = {}

-----------------------------------------------------------------------------
(* Properties of reading a file with two markers (checked under            *)
(* SpecSections).                                                          *)

\* the lines of the sequence that are not empty
NonBlank(lines) == SelectSeq(lines, LAMBDA l : l # BlankLine)

\* row i of the table stands for the line
RowReadAs(table, i, line) ==
    \A j \in 1..Len(table.columns) :
        ReadAs(Field(line, j), table.rows[i][table.columns[j]])

\* the table stands for the first lines of the region, a header and rows
TableWithin(table, region) ==
    /\ region # <<>>
    /\ table.columns = region[1]
    /\ Len(table.rows) <= Len(region) - 1
    /\ \A i \in 1..Len(table.rows) : RowReadAs(table, i, region[i + 1])

\* C11: for a file with markers at lines a < b, whatever a is, the table
\* read is made of lines strictly between the markers only and leaves out
\* no more than the two lines before the second marker; the enrichment
\* table is made of lines after the second marker only.
C11_TableBetweenMarkersEnrichmentAfter ==
    ReadDone =>
        \A f \in 1..Len(n_files) :
            LET lines == dir[n_files[f]]
                marker == Positions(lines)
            IN  Len(marker) = 2 =>
                  LET between == NonBlank(SubSeq(lines, marker[1] + 2, marker[2]))
                      after == NonBlank(SubSeq(lines, marker[2] + 2, Len(lines)))
                  IN  /\ TableWithin(n_original[f], between)
                      /\ Len(n_original[f].rows) >= Len(between) - 1 - 2
                      /\ ~n_enrichment[f].isNone
                      /\ n_enrichment[f].columns = after[1]
                      /\ Len(n_enrichment[f].rows) = Len(after) - 1

\* What holds when the first marker is the seventh line and one empty line
\* lies above the second: the table is the lines between the markers but
\* the last (non-empty) one, the enrichment table the lines after the
\* second marker.
SectionsOfTheSavedLayout ==
    ReadDone =>
        \A f \in 1..Len(n_files) :
            LET lines == dir[n_files[f]]
                marker == Positions(lines)
            IN  (/\ Len(marker) = 2
                 /\ marker[1] = 6
                 /\ Len(NonBlank(SubSeq(lines, 1, marker[2]))) = marker[2] - 1) =>
                  LET between == NonBlank(SubSeq(lines, marker[1] + 2, marker[2]))
                      after == NonBlank(SubSeq(lines, marker[2] + 2, Len(lines)))
                  IN  /\ TableWithin(n_original[f], between)
                      /\ Len(n_original[f].rows) >= Len(between) - 1 - 2
                      /\ ~n_enrichment[f].isNone
                      /\ n_enrichment[f].columns = after[1]
                      /\ Len(n_enrichment[f].rows) = Len(after) - 1

-----------------------------------------------------------------------------
(* Properties of nebula(folder) (checked under SpecNebula).                *)

\* the importing loop is over
Imported == npc \in {"check", "remap", "done"}

\* the .omics files of the folder
OmicsFiles == {f \in DOMAIN dir : EndsWith(f, S_omics)}

\* the file has a line that begins with the prefix
HasLine(lines, prefix) == \E i \in 1..Len(lines) : StartsWith(lines[i][1], prefix)

\* some .omics file of the folder has no marker line
SomeUnmarked == \E f \in OmicsFiles : Positions(dir[f]) = <<>>

\* C12: with no .omics file in the folder, or with an .omics file that has
\* no marker line, loading raises (ValueError for the empty folder,
\* IndexError for the missing marker) and the object gets no table.
C12_NoFileOrNoMarkerFails ==
    (OmicsFiles = {} \/ SomeUnmarked) =>
        /\ npc \in {"idle", "error"}
        /\ n_original = <<>>
        /\ n_group_data = <<>>
        /\ n_attrs = {}
        /\ npc = "error" =>
              n_error = (IF OmicsFiles = {} THEN "ValueError" ELSE "IndexError")

\* C12's case: a folder of two files, one without a marker; loading has
\* raised.
C12_Witness ==
    /\ npc = "error"
    /\ Cardinality(OmicsFiles) = 2
    /\ SomeUnmarked
    /\ \E f \in OmicsFiles : Len(Positions(dir[f])) = 1
    /\ n_error = "IndexError"
    /\ n_original = <<>>

\* C12 for the empty folder: loading has raised ValueError.
C12_WitnessEmptyFolder ==
    /\ npc = "error"
    /\ OmicsFiles = {}
    /\ n_error = "ValueError"

\* two of the loaded studies have the same group label
SharedLabel == \E i, j \in 1..Len(n_groups) : i # j /\ n_groups[i] = n_groups[j]

Malformed(lines) ==
    \/ ~HasLine(lines, S_Experimental)
    \/ ~HasLine(lines, S_Statistics)
    \/ Positions(lines) = <<>>

\* C14: with a malformed .omics file in the folder the construction never
\* completes.
C14_MalformedFileFailsTheBatch ==
    (\E f \in OmicsFiles : Malformed(dir[f])) => npc # "done"

\* What does hold of malformed files: a file without a marker fails the
\* batch, and so does a folder without any Statistics: line once a study
\* is to be reduced.
UnmarkedOrKindlessFails ==
    /\ SomeUnmarked => npc # "done"
    /\ ((\A f \in OmicsFiles : ~HasLine(dir[f], S_Statistics)) /\ n_groups # <<>>)
          => ~Imported

\* the label of the study read from file f: the last field of its
\* Experimental: line
StudyLabel(f) ==
    LET lines == dir[f]
        i == CHOOSE i \in 1..Len(lines) : StartsWith(lines[i][1], S_Experimental)
    IN  lines[i][Len(lines[i])]

\* the number of rows of the sequence equal to r
Count(rows, r) == Cardinality({i \in 1..Len(rows) : rows[i] = r})

\* c is fc rounded to the nearest integer
Nearest(c, fc) ==
    IF fc.k # "num" THEN c = fc
    ELSE /\ c.k = "num"
         /\ c.v % 100 = 0
         /\ c.v - fc.v <= 50
         /\ fc.v - c.v <= 50

\* the reduced table red is the rows of the table orig with p below the
\* cutoff, as name and fold change, tagged with the label and the color
ReducedOf(red, orig, label) ==
    LET keep == SelectSeq(orig.rows, LAMBDA r : FLt(r[n_pvalue], pvalue_cutoff))
        proj(r) == <<r[S_gene_name], r[S_log2fc]>>
        kept == [i \in 1..Len(keep) |-> proj(keep[i])]
        got == [i \in 1..Len(red.rows) |-> proj(red.rows[i])]
    IN  /\ Range(red.columns) = {S_gene_name, S_log2fc, S_group, S_color}
        /\ Len(got) = Len(kept)
        /\ \A i \in 1..Len(got) : Count(got, got[i]) = Count(kept, got[i])
        /\ \A i \in 1..Len(red.rows) :
              /\ red.rows[i][S_group] = Str(label)
              /\ Nearest(red.rows[i][S_color], red.rows[i][S_log2fc])

\* the table is the one read from the one-marker file: its header and as
\* many rows as the file has lines below the header
StillTheTableOf(table, lines) ==
    /\ table.columns = lines[Positions(lines)[1] + 2]
    /\ Len(table.rows) = Len(lines) - (Positions(lines)[1] + 2)

\* C18: for every loaded study there is a reduced table, made of exactly
\* the study's rows with p below the cutoff as name and log2 fold-change,
\* every row tagged with the study's label and the fold change rounded to
\* the nearest integer; the study's table is unchanged.
C18_ReducedTableOfEveryStudy ==
    Imported =>
        /\ Len(n_group_data) = Len(n_files)
        /\ \A i \in 1..Len(n_files) :
              /\ HasLine(dir[n_files[i]], S_Experimental)
              /\ ReducedOf(n_group_data[i], n_original[i], StudyLabel(n_files[i]))
              /\ StillTheTableOf(n_original[i], dir[n_files[i]])

\* What holds when every file of the folder has its Experimental: line:
\* the reduced tables are as C18 says.
ReducedTableOfLabelledStudies ==
    (Imported /\ \A f \in OmicsFiles : HasLine(dir[f], S_Experimental)) =>
        /\ Len(n_group_data) = Len(n_files)
        /\ \A i \in 1..Len(n_files) :
              /\ ReducedOf(n_group_data[i], n_original[i], StudyLabel(n_files[i]))
              /\ StillTheTableOf(n_original[i], dir[n_files[i]])

-----------------------------------------------------------------------------
(* Properties of remap (checked under SpecRemap).                          *)

\* the aggregate has been constructed
Aggregated == npc = "done"

\* the places of the entity names: study i, row r
NamePlaces ==
    UNION {{<<i, r>> : r \in 1..Len(n_original[i].rows)} : i \in 1..Len(n_original)}

NameAt(p) == n_original[p[1]].rows[p[2]][S_gene_name]

\* place p comes before place q: in study order, then in row order
Earlier(p, q) == p[1] < q[1] \/ (p[1] = q[1] /\ p[2] < q[2])

\* C15: every key of the dictionary is the upper-cased form of an entity
\* name of a loaded study, the upper-cased form of every entity name is a
\* key, and the value of a key is the first name, in study and then row
\* order, that has this upper-cased form.
C15_DictionaryKeepsFirstSpelling ==
    Aggregated =>
        LET dic == remap_dic(n_original)
        IN  /\ \A key \in DOMAIN dic : \E p \in NamePlaces : Str(upper(NameAt(p).v)) = key
            /\ \A p \in NamePlaces : Str(upper(NameAt(p).v)) \in DOMAIN dic
            /\ \A key \in DOMAIN dic :
                  \E p \in NamePlaces :
                      /\ dic[key] = NameAt(p)
                      /\ Str(upper(NameAt(p).v)) = key
                      /\ \A q \in NamePlaces :
                            Earlier(q, p) => Str(upper(NameAt(q).v)) # key

\* What the dictionary does keep: for every key the last of the distinct
\* names that have this upper-cased form.
DictionaryKeepsLastSpelling ==
    Aggregated =>
        LET dic == remap_dic(n_original)
        IN  /\ \A key \in DOMAIN dic : \E p \in NamePlaces : Str(upper(NameAt(p).v)) = key
            /\ \A p \in NamePlaces : Str(upper(NameAt(p).v)) \in DOMAIN dic
            /\ \A key \in DOMAIN dic :
                  \E p \in NamePlaces :
                      /\ dic[key] = NameAt(p)
                      /\ Str(upper(NameAt(p).v)) = key
                      /\ \A q \in NamePlaces :
                            (Earlier(p, q) /\ Str(upper(NameAt(q).v)) = key)
                                => \E o \in NamePlaces :
                                      Earlier(o, p) /\ NameAt(o) = NameAt(q)

\* the entries of the gene lists of all enrichment tables
GeneEntries ==
    UNION {UNION {Range(n_enrichment[i].rows[t][S_Genes].v) :
                     t \in 1..Len(n_enrichment[i].rows)} :
              i \in {i \in 1..Len(n_enrichment) : ~n_enrichment[i].isNone}}

\* g is, but for letter case, the name of an entity of a loaded study
KnownName(g) == \E p \in NamePlaces : upper(NameAt(p).v) = upper(g)

\* C16: after remap, two gene-list entries that are the same but for letter
\* case and match an entity name are the same: with the names Tp53 and
\* TP53 every Tp53 and TP53 of a gene list has become one spelling.
C16_CaseVariantsGetOneSpelling ==
    Aggregated =>
        \A g, h \in GeneEntries :
            (upper(g) = upper(h) /\ KnownName(g)) => g = h

\* the enrichment table the file carries: its lines after the second
\* marker, or none
TermLines(lines) ==
    IF Len(Positions(lines)) < 2 THEN <<>>
    ELSE SubSeq(lines, Positions(lines)[2] + 3, Len(lines))

CarriesEnrichment(lines) == Len(Positions(lines)) >= 2

\* the number of names in the text of a gene list: its separators and one
NamesIn(text) ==
    Cardinality({k \in 1..(Len(text) - 1) : SubSeq(text, k, k + 1) = S_comma_space}) + 1

\* C17: after remap the enrichment list has one entry per loaded study in
\* study order; the entry is None exactly for a study whose file carried
\* no enrichment table; a table that was carried has the same terms and as
\* many genes per term as the file, and a gene-list entry that is not a
\* key of the dictionary is unchanged.
C17_EnrichmentKeptPerStudy ==
    Aggregated =>
        /\ Len(n_enrichment) = Len(n_files)
        /\ \A i \in 1..Len(n_files) :
              LET lines == dir[n_files[i]]
                  terms == TermLines(lines)
                  e == n_enrichment[i]
              IN  /\ e.isNone <=> ~CarriesEnrichment(lines)
                  /\ ~e.isNone =>
                        /\ Len(e.rows) = Len(terms)
                        /\ \A t \in 1..Len(terms) :
                              /\ e.rows[t][S_Term] = Str(terms[t][1])
                              /\ e.rows[t][S_Genes].k = "list"
                              /\ Len(e.rows[t][S_Genes].v) = NamesIn(terms[t][2])
                              /\ \A j \in 1..Len(e.rows[t][S_Genes].v) :
                                    LET was == UnwrapGenes(Str(terms[t][2])).v[j]
                                    IN  Str(was) \notin DOMAIN remap_dic(n_original)
                                            => e.rows[t][S_Genes].v[j] = was

\* every term of every enrichment table of the folder has its genes
EveryTermHasGenes ==
    \A f \in OmicsFiles :
        \A t \in 1..Len(TermLines(dir[f])) : Field(TermLines(dir[f])[t], 2) # <<>>

\* What holds when every term of every file has its genes.
EnrichmentKeptWhenTermsHaveGenes ==
    (Aggregated /\ EveryTermHasGenes) =>
        /\ Len(n_enrichment) = Len(n_files)
        /\ \A i \in 1..Len(n_files) :
              LET lines == dir[n_files[i]]
                  terms == TermLines(lines)
                  e == n_enrichment[i]
              IN  /\ e.isNone <=> ~CarriesEnrichment(lines)
                  /\ ~e.isNone =>
                        /\ Len(e.rows) = Len(terms)
                        /\ \A t \in 1..Len(terms) :
                              /\ e.rows[t][S_Term] = Str(terms[t][1])
                              /\ e.rows[t][S_Genes].k = "list"
                              /\ Len(e.rows[t][S_Genes].v) = NamesIn(terms[t][2])
                              /\ \A j \in 1..Len(e.rows[t][S_Genes].v) :
                                    LET was == UnwrapGenes(Str(terms[t][2])).v[j]
                                    IN  Str(was) \notin DOMAIN remap_dic(n_original)
                                            => e.rows[t][S_Genes].v[j] = was

-----------------------------------------------------------------------------
(* Properties of the plotting functions (checked under SpecPlot).          *)

\* C21: no call of a plotting function changes the analysis it is given:
\* the statistics table, the differential set and the condition assignment
\* of a constructed analysis stay what they were.
C21_PlottingLeavesTheAnalysisUnchanged ==
    [][pc = "done" => /\ quant_data' = quant_data
                      /\ deps' = deps
                      /\ Conditions' = Conditions
                      /\ ctrl' = ctrl
                      /\ experimental' = experimental]_vars

\* What does hold: the plots leave the differential set and the condition
\* assignment alone, and the statistics table too when a plot ends in an
\* exception or is not one of the volcano plots.
PlottingKeepsSelectionAndConditions ==
    [][pc = "done" => /\ deps' = deps
                      /\ Conditions' = Conditions
                      /\ ctrl' = ctrl
                      /\ experimental' = experimental
                      /\ (quant_data' # quant_data
                            => /\ neglog_p
                               /\ figures' \ figures
                                    \subseteq {"volcano_2cond", "volcano_Multicond",
                                               "volcano_qvalue"}
                               /\ error' \in {error, "AttributeError"})]_vars

-----------------------------------------------------------------------------
(* Properties of the expression-matrix builder's effects (checked under    *)
(* SpecExpr).                                                              *)

\* C22: once expression() has run, the analysis still holds the raw sample
\* metadata, the raw feature metadata and the raw assay it held before,
\* unchanged.
C22_ExpressionLeavesItsInputs ==
    Built => /\ pdata = Table.pdata
             /\ pdata_cols = RawCols
             /\ rdata = Table.rdata
             /\ assay = Table.assay

\* What does hold: the assay is kept; pdata and rdata are replaced by the
\* tables of the biological samples and of the surviving entities.
ExpressionKeepsTheAssayOnly ==
    Built => /\ assay = Table.assay
             /\ pdata # Table.pdata
             /\ Len(pdata) = Len(expression.columns)
             /\ Column(rdata, S_Accession) = expression.index

-----------------------------------------------------------------------------
(* Properties of a constructed analysis that is used further (checked      *)
(* under SpecReuse).                                                       *)

\* the number of times procedure f has been called
TimesCalled(f) == Len(SelectSeq(calls, LAMBDA c : c = f))

\* C23: whatever cutoffs have been assigned since, the differential set of
\* a constructed analysis is the selection from its statistics table under
\* the cutoffs it has now, and calling deps() on it again does not fail.
C23_DepsFollowsTheCutoffs ==
    pc = "done" =>
        /\ deps = deps_of(quant_data, PValue_cutoff, FoldChange_cutoff)
        /\ (TimesCalled("deps") >= 2 => error = "none")

\* What does hold: the differential set stays the table line 118 bound
\* self.deps to, and every further deps() call raises TypeError.
DepsIsFixedAtConstruction ==
    [][pc = "done" => /\ deps' = deps
                      /\ (TimesCalled("deps")' > TimesCalled("deps")
                            => error' = "TypeError")]_vars

\* C24: calling the expression-matrix builder again on an analysis that
\* holds its output succeeds and leaves the same surviving entities.
C24_RerunYieldsTheSameSurvivors ==
    (pc = "done" /\ TimesCalled("expression") >= 2) =>
        /\ error = "none"
        /\ expression.index = Column(rdata, S_Accession)

\* What does hold: every further expression() call raises TypeError and
\* leaves the matrix and the metadata as the first run left them.
RerunRaises ==
    [][(pc = "done" /\ TimesCalled("expression")' > TimesCalled("expression"))
          => /\ error' = "TypeError"
             /\ expression' = expression
             /\ pdata' = pdata
             /\ rdata' = rdata]_vars

-----------------------------------------------------------------------------
(* Monotonicity of the selection (checked under SpecDeps).                 *)

\* cutoffs to compare the cutoffs of the analysis with, in hundredths
TighterP == {Num(0), Num(1), Num(5)}
WiderFC == {Num(-100), Num(-50), Num(0), Num(50), Num(100), Num(200), PosInf}

\* C25: for a p-value cutoff not above and a fold-change cutoff not below
\* the ones the differential set was selected under, deps() selects rows
\* of the differential set only, so no more rows than it has.
C25_SelectionIsMonotone ==
    Selected =>
        \A p2 \in TighterP, f2 \in WiderFC :
            (FLe(p2, PValue_cutoff) /\ FGe(f2, FoldChange_cutoff)) =>
                LET tighter == deps_of(quant_data, p2, f2)
                IN  /\ Range(tighter) \subseteq Range(deps)
                    /\ Len(tighter) <= Len(deps)

\* A differential set selected under a negative fold-change cutoff holds an
\* entity of infinite fold change and loses rows under tighter cutoffs.
C25_Witness ==
    /\ Selected
    /\ FoldChange_cutoff = Num(-100)
    /\ \E i \in 1..Len(deps) : deps[i][S_log2fc] = PosInf
    /\ \E i \in 1..Len(quant_data) : quant_data[i][S_log2fc] = Num(0)
    /\ Len(deps_of(quant_data, Num(1), Num(100))) < Len(deps)
    /\ Len(deps_of(quant_data, PValue_cutoff, Num(0))) <= Len(deps)

-----------------------------------------------------------------------------
(* Properties of the biological-sample names (checked under SpecNames).    *)

\* BioRep_<replicate-index>.<condition>[-<extra-grouping>] of a raw sample
NameOf(row) ==
    S_BioRep_ \o row[S_Biological] \o S_dot \o row[S_Condition]
        \o (IF S_TimeCourse \in DOMAIN row THEN S_dash \o row[S_TimeCourse] ELSE <<>>)

\* the biological-replicate group of a raw sample: its values in the
\* grouping columns
GroupOf(row) == [c \in (DOMAIN row) \ {S_Sample} |-> row[c]]

\* C26: the names of the biological samples are fixed by the inputs:
\* every group of raw samples is named BioRep_<replicate-index>.<condition>
\* followed by -<extra-grouping> where there is an additional grouping
\* column, whatever the hash order of the run, and there is one name per
\* group.
C26_NamesAreDeterministic ==
    Built =>
        /\ Range(expression.columns) = {NameOf(Table.pdata[i]) : i \in 1..Len(Table.pdata)}
        /\ Len(expression.columns)
             = Cardinality({GroupOf(Table.pdata[i]) : i \in 1..Len(Table.pdata)})

\* What does hold: without an additional grouping column the names are
\* BioRep_<replicate-index>.<condition> in every hash order; with one, the
\* values after the dot are dash-joined in the hash order of the run.
NamesFollowTheHashOrder ==
    Built =>
        /\ Len(expression.columns)
             = Cardinality({GroupOf(Table.pdata[i]) : i \in 1..Len(Table.pdata)})
        /\ Range(expression.columns)
             = {S_BioRep_ \o Table.pdata[i][S_Biological] \o S_dot
                  \o Join(S_dash,
                          LET others == SelectSeq(hash_order,
                                                  LAMBDA c : c # S_Biological)
                          IN  [k \in 1..Len(others) |-> Table.pdata[i][others[k]]])
                  : i \in 1..Len(Table.pdata)}

-----------------------------------------------------------------------------
(* Alignment of the builder's three outputs (checked under SpecExpr).      *)

\* C27: once expression() has run, the matrix has one column per row of
\* the updated sample metadata, named by that row's Sample value, and one
\* row per row of the updated feature metadata, in the same order; the
\* accessions are those of the entities covered in every condition.
C27_OutputsStayAligned ==
    Built =>
        /\ Len(expression.columns) = Len(pdata)
        /\ \A n \in 1..Len(pdata) : expression.columns[n] = pdata[n][S_Sample]
        /\ Len(expression.index) = Len(rdata)
        /\ Len(expression.values) = Len(rdata)
        /\ \A r \in 1..Len(rdata) :
              /\ expression.index[r] = rdata[r][S_Accession]
              /\ Len(expression.values[r]) = Len(pdata)
        /\ Range(expression.index)
             = {Table.rdata[e][S_Accession] :
                  e \in {e \in 1..Len(Table.rdata) :
                            \A c \in RawLabels : HasCoverage(e, c)}}

\* C27's case: technical replicates were averaged into fewer biological
\* samples and an entity was dropped, in both tables and in the matrix.
C27_Witness ==
    /\ Built
    /\ Len(pdata) = 2
    /\ Len(Table.pdata) = 3
    /\ Len(rdata) = 1
    /\ Len(Table.rdata) = 2
    /\ expression.index = <<AccessionId(2)>>
    /\ Len(expression.columns) = 2

-----------------------------------------------------------------------------
(* Properties of the aggregate's per-study sequences (checked under        *)
(* SpecStudies).                                                           *)

\* the label file f declares: the last field of its Experimental: line
DeclaredLabel(f) ==
    LET lines == dir[f]
        i == CHOOSE i \in 1..Len(lines) : lines[i][1] = S_Experimental_colon
    IN  lines[i][Len(lines[i])]

\* the p-value kind file f declares on its Statistics: line
DeclaredKind(f) ==
    LET lines == dir[f]
        i == CHOOSE i \in 1..Len(lines) : lines[i][1] = S_Statistics_colon
    IN  lines[i][Len(lines[i])]

\* C28: in an aggregate there are as many labels, result tables, reduced
\* tables and enrichment entries as files were read, and at every index
\* the label, the result table, the group tag of the reduced table and the
\* enrichment entry are those of the file at that index of the listing.
C28_SequencesFollowTheListing ==
    Aggregated =>
        /\ Len(n_labels) = Len(n_files)
        /\ Len(n_groups) = Len(n_files)
        /\ Len(n_original) = Len(n_files)
        /\ Len(n_group_data) = Len(n_files)
        /\ Len(n_enrichment) = Len(n_files)
        /\ \A i \in 1..Len(n_files) :
              /\ n_labels[i] = DeclaredLabel(n_files[i])
              /\ StillTheTableOf(n_original[i], dir[n_files[i]])
              /\ \A r \in 1..Len(n_group_data[i].rows) :
                    n_group_data[i].rows[r][S_group] = Str(DeclaredLabel(n_files[i]))
              /\ n_enrichment[i] = NoEnrichment

\* the table or enrichment rows of the file that begin with 'Experimental'
LabelLikeRows(lines) ==
    {i \in 1..Len(lines) :
        StartsWith(lines[i][1], S_Experimental) /\ lines[i][1] # S_Experimental_colon}

\* What does hold: the result tables and enrichment entries follow the
\* listing; the labels do as long as no row of a file begins with
\* 'Experimental'.
TablesFollowTheListing ==
    Aggregated =>
        /\ Len(n_original) = Len(n_files)
        /\ Len(n_enrichment) = Len(n_files)
        /\ \A i \in 1..Len(n_files) :
              /\ StillTheTableOf(n_original[i], dir[n_files[i]])
              /\ n_enrichment[i] = NoEnrichment
        /\ (\A f \in OmicsFiles : LabelLikeRows(dir[f]) = {}) =>
              /\ Len(n_labels) = Len(n_files)
              /\ Len(n_group_data) = Len(n_files)
              /\ \A i \in 1..Len(n_files) :
                    /\ n_labels[i] = DeclaredLabel(n_files[i])
                    /\ \A r \in 1..Len(n_group_data[i].rows) :
                          n_group_data[i].rows[r][S_group]
                              = Str(DeclaredLabel(n_files[i]))

\* the rows of the table with the p-value of column kind below the cutoff,
\* as name and fold change
SelectedOn(orig, kind) ==
    LET keep == SelectSeq(orig.rows, LAMBDA r : FLt(r[kind], pvalue_cutoff))
    IN  [i \in 1..Len(keep) |-> <<keep[i][S_gene_name], keep[i][S_log2fc]>>]

\* the rows of a reduced table, as name and fold change
ReducedRows(red) ==
    [i \in 1..Len(red.rows) |-> <<red.rows[i][S_gene_name], red.rows[i][S_log2fc]>>]

\* the folder holds files of different p-value kinds
MixedKinds == \E f, g \in OmicsFiles : DeclaredKind(f) # DeclaredKind(g)

\* C29: in a folder of studies of different p-value kinds every study is
\* loaded and reduced on the column its own Statistics: line names: its
\* reduced table holds exactly its rows with that p-value below the cutoff.
C29_EachStudyFilteredOnItsOwnKind ==
    (MixedKinds /\ npc \in {"check", "remap", "done", "error"}) =>
        /\ npc = "error" => n_error = "Exception"
        /\ Len(n_group_data) = Len(n_files)
        /\ \A i \in 1..Len(n_group_data) :
              LET own == SelectedOn(n_original[i], DeclaredKind(n_files[i]))
                  got == ReducedRows(n_group_data[i])
              IN  /\ Len(got) = Len(own)
                  /\ \A k \in 1..Len(got) : Count(got, got[k]) = Count(own, got[k])

\* What does hold: every study is reduced on the kind of the file listed
\* last, and the load fails with KeyError when a table lacks that column.
EveryStudyFilteredOnTheLastKind ==
    (npc \in {"check", "remap", "done", "error"}) =>
        LET last == DeclaredKind(n_files[Len(n_files)])
        IN  /\ n_pvalue = last
            /\ (\E i \in 1..Len(n_original) : ~Contains(n_original[i].columns, last))
                  <=> (npc = "error" /\ n_error = "KeyError")
            /\ \A i \in 1..Len(n_group_data) :
                  LET sel == SelectedOn(n_original[i], last)
                      got == ReducedRows(n_group_data[i])
                  IN  /\ Len(got) = Len(sel)
                      /\ \A k \in 1..Len(got) : Count(got, got[k]) = Count(sel, got[k])

-----------------------------------------------------------------------------
(* Properties of repeated saving into one folder (checked under SpecSave). *)

\* the file name savefile gives a condition list
FileNameOf(conds) == Join(S_dash, conds) \o S_omics

\* a savefile call has written the folder or is a first save of its list
SaveStep == dir' # dir \/ saved' # saved

\* C30: after any sequence of savefile calls the folder holds one file per
\* distinct ordered condition list saved, named by the list; a save writes
\* the file of its list with the data of the analysis saved, leaves the
\* other files alone and changes nothing in the analysis.
C30_OneFilePerConditionList ==
    /\ [](/\ DOMAIN dir = {FileNameOf(c) : c \in saved}
          /\ Cardinality(DOMAIN dir) = Cardinality(saved))
    /\ [][SaveStep =>
            /\ dir'[savefile_name] = savefile_lines
            /\ \A f \in (DOMAIN dir) \ {savefile_name} : dir'[f] = dir[f]
            /\ UNCHANGED ovars]_vars

\* What does hold: one file per distinct file name, each holding the data
\* of the last analysis saved under that name.
OneFilePerFileName ==
    /\ [](DOMAIN dir = {FileNameOf(c) : c \in saved})
    /\ [][SaveStep =>
            /\ dir'[savefile_name] = savefile_lines
            /\ DOMAIN dir' = (DOMAIN dir) \cup {savefile_name}
            /\ \A f \in (DOMAIN dir) \ {savefile_name} : dir'[f] = dir[f]
            /\ UNCHANGED ovars]_vars

====
